---- MODULE Spec2Model ----
(***************************************************************************)
(* Webhook intake and evidence bundle sealing of                           *)
(* guardspine-adapter-webhook.                                             *)
(*                                                                         *)
(* One behaviour of the model is the calls of one exported operation:      *)
(*   buildImportBundle          src/src/importer.ts                        *)
(*   BundleEmitter.sealBundle   src/src/bundle-emitter.ts (returns the     *)
(*                              bundle as is when sealing fails)           *)
(*   BundleEmitter.sealBundle   src/unnamed/part_000:253 (throws when      *)
(*                              sealing fails, optional sanitizer)         *)
(*   BundleEmitter.fromEvent    src/src/bundle-emitter.ts (JSON.stringify) *)
(*   BundleEmitter.fromEvent    src/unnamed/part_000:224 (canonicalJson)   *)
(*   canonicalJson              src/unnamed/part_000:455                   *)
(*   WebhookHandler.handleRequest  src/unnamed/part_004                    *)
(*   postImportBundle           src/src/importer.ts:119                    *)
(*   PIIShieldSanitizer.sanitizeText  src/src/providers/generic.ts:153     *)
(*                              (WASM, temporary files and descriptors)    *)
(*   PIIShieldSanitizer.sanitizeText  src/src/providers/generic.ts:265     *)
(*                              (HTTP, timer and fetch)                    *)
(* A call of buildImportBundle that was rejected may be followed by        *)
(* another call with the same bundle.                                      *)
(* The kernel (sealing authority), the sanitizer handed to the sealing     *)
(* operations, the network and the file system are outside the             *)
(* repository: every answer they can give is a nondeterministic choice.    *)
(***************************************************************************)
EXTENDS Integers, Sequences, FiniteSets, TLC

VARIABLES
    op,         \* the operation this behaviour runs
    pc,         \* position inside the operation
    bundle,     \* the EmittedBundle argument
    sanitizer,  \* TRUE iff a sanitizer was supplied
    items,      \* the local `items`
    summary,    \* the local `sanitization` / `summary` (None or Some)
    idx,        \* 1-based position of the for..of loop of sanitizeImportItems
    allRaw,     \* sanitizeImportItems: allRaw
    allOutput,  \* sanitizeImportItems: allOutput
    sanitizedItems, \* sanitizeImportItems: sanitizedItems
    pending,    \* sealBundle: indices of sanitizer calls still in flight
    draft,      \* the local `draft` (None or Some)
    version,    \* the local `version`
    sealed,     \* the local `sealed` (None until the kernel has answered)
    attempts,   \* how the earlier calls made with the same bundle ended
    outcome,    \* how the returned promise settled
    trace,      \* calls made to collaborators (sanitizer, kernel, providers)
    config,     \* BundleEmitter: this.config
    event,      \* the WebhookEvent the behaviour is about
    emitted,    \* fromEvent: the calls made so far, [event, bundle]
    values,     \* canonicalJson: the two values to encode
    encoded,    \* canonicalJson: their encodings (None until computed)
    providers,  \* WebhookHandler: this.providers
    request,    \* handleRequest: the headers and the body
    post,       \* postImportBundle: the arguments and the locals
    wasm,       \* PIIShieldSanitizer (WASM): the locals of sanitizeText
    http        \* PIIShieldSanitizer (HTTP): the locals of sanitizeText

(* the variables of the sealing operations *)
sealVars == <<bundle, sanitizer, items, summary, idx, allRaw, allOutput,
              sanitizedItems, pending, draft, version, sealed, attempts>>

(* the variables of the other operations *)
otherVars == <<config, event, emitted, values, encoded, providers, request,
               post, wasm, http>>

vars == <<op, pc, sealVars, outcome, trace, otherVars>>

----------------------------------------------------------------------------
(* Bounds of the model.                                                    *)

MaxItems == 2

(* calls of buildImportBundle a caller makes with one bundle *)
MaxAttempts == 2

----------------------------------------------------------------------------
(* Optional values (undefined | T).                                        *)

None == {}
Some(v) == {v}
IsSome(o) == o # {}
The(o) == CHOOSE v \in o : TRUE

(* a ?? b *)
OrElse(o, d) == IF IsSome(o) THEN The(o) ELSE d

----------------------------------------------------------------------------
(* Strings.                                                                *)

CharAt(s, i) == SubSeq(s, i, i)

LowerTable ==
    [A |-> "a", B |-> "b", C |-> "c", D |-> "d", E |-> "e", F |-> "f", G
     |-> "g", H |-> "h", I |-> "i", J |-> "j", K |-> "k", L |-> "l", M |->
     "m", N |-> "n", O |-> "o", P |-> "p", Q |-> "q", R |-> "r", S |->
     "s", T |-> "t", U |-> "u", V |-> "v", W |-> "w", X |-> "x", Y |->
     "y", Z |-> "z"]

ToLower(c) == IF c \in DOMAIN LowerTable THEN LowerTable[c] ELSE c

(* pat occurs in s; with ci, letters of s are compared case-insensitively  *)
(* (pat is given in lower case).                                           *)
Contains(s, pat, ci) ==
    \E i \in 1..(Len(s) - Len(pat) + 1) :
        \A k \in 1..Len(pat) :
            LET c == CharAt(s, i + k - 1)
            IN  (IF ci THEN ToLower(c) ELSE c) = CharAt(pat, k)

(* String.prototype.toLowerCase *)
RECURSIVE ToLowerCase(_)
ToLowerCase(s) ==
    IF s = "" THEN "" ELSE ToLower(CharAt(s, 1)) \o ToLowerCase(SubSeq(s, 2, Len(s)))

RECURSIVE Join(_)
Join(seq) == IF seq = <<>> THEN "" ELSE Head(seq) \o Join(Tail(seq))

Digits == {"0", "1", "2", "3", "4", "5", "6", "7", "8", "9"}

----------------------------------------------------------------------------
(* JSON values and JSON text. A value is tagged by t: a string, a number   *)
(* (v its digits), null, undefined, an array of elements or an object of   *)
(* members <<key, value>> in insertion order, keys distinct and not        *)
(* integer-like. Strings hold no character that JSON.stringify escapes.    *)
(* JSON.parse is modelled on the texts the sanitizer returns: a string     *)
(* literal, a number, null, or not JSON at all.                            *)

JStr(s) == [t |-> "string", v |-> s]
JNull == [t |-> "null", v |-> "null"]
JNum(d) == [t |-> "number", v |-> d]

JUndefined == [t |-> "undefined", v |-> "undefined"]
JArr(elements) == [t |-> "array", elements |-> elements]
JObj(members) == [t |-> "object", members |-> members]

Quote(s) == "\"" \o s \o "\""

(* Array.prototype.join(sep) on strings *)
RECURSIVE JoinWith(_, _)
JoinWith(seq, sep) ==
    IF seq = <<>> THEN ""
    ELSE IF Len(seq) = 1 THEN seq[1]
    ELSE seq[1] \o sep \o JoinWith(Tail(seq), sep)

IsDefinedMember(m) == m[2].t # "undefined"

(* JSON.stringify: members whose value is undefined are left out, an       *)
(* undefined element is written null; members keep their insertion order.  *)
RECURSIVE JsonStringify(_)
JsonStringify(j) ==
    CASE j.t = "string" -> Quote(j.v)
      [] j.t = "array" ->
            "[" \o JoinWith([i \in 1..Len(j.elements) |->
                                IF j.elements[i].t = "undefined" THEN "null"
                                ELSE JsonStringify(j.elements[i])], ",") \o "]"
      [] j.t = "object" ->
            LET kept == SelectSeq(j.members, IsDefinedMember)
            IN  "{" \o JoinWith([i \in 1..Len(kept) |->
                                    Quote(kept[i][1]) \o ":" \o
                                    JsonStringify(kept[i][2])], ",") \o "}"
      [] OTHER -> j.v

(* the UTF-16 code units of the characters of the keys of the model *)
CodeUnits ==
    [A |-> 65, B |-> 66, C |-> 67, D |-> 68, E |-> 69, F |-> 70, G |-> 71,
     H |-> 72, I |-> 73, J |-> 74, K |-> 75, L |-> 76, M |-> 77, N |-> 78,
     O |-> 79, P |-> 80, Q |-> 81, R |-> 82, S |-> 83, T |-> 84, U |-> 85,
     V |-> 86, W |-> 87, X |-> 88, Y |-> 89, Z |-> 90, a |-> 97, b |-> 98,
     c |-> 99, d |-> 100, e |-> 101, f |-> 102, g |-> 103, h |-> 104, i
     |-> 105, j |-> 106, k |-> 107, l |-> 108, m |-> 109, n |-> 110, o |->
     111, p |-> 112, q |-> 113, r |-> 114, s |-> 115, t |-> 116, u |->
     117, v |-> 118, w |-> 119, x |-> 120, y |-> 121, z |-> 122]

(* a sorts before b in the default order of Array.prototype.sort *)
RECURSIVE StrLess(_, _)
StrLess(a, b) ==
    IF b = "" THEN FALSE
    ELSE IF a = "" THEN TRUE
    ELSE IF CharAt(a, 1) = CharAt(b, 1)
         THEN StrLess(SubSeq(a, 2, Len(a)), SubSeq(b, 2, Len(b)))
         ELSE CodeUnits[CharAt(a, 1)] < CodeUnits[CharAt(b, 1)]

RemoveAt(seq, i) == SubSeq(seq, 1, i - 1) \o SubSeq(seq, i + 1, Len(seq))

(* member m put at its place in the sorted list of members *)
RECURSIVE InsertMember(_, _)
InsertMember(m, sorted) ==
    IF sorted = <<>> THEN <<m>>
    ELSE IF StrLess(m[1], sorted[1][1]) THEN <<m>> \o sorted
    ELSE <<sorted[1]>> \o InsertMember(m, Tail(sorted))

(* mutant: the members keep their insertion order *)
SortMembers_Unsorted(members) == members

(* the members in the order of Object.keys(obj).sort() *)
RECURSIVE SortMembers(_)
SortMembers(members) ==
    IF members = <<>> THEN <<>>
    ELSE InsertMember(Head(members), SortMembers(Tail(members)))

(* canonicalJson of src/unnamed/part_000:455-465. canonicalJson(undefined) *)
(* is undefined: join() writes it as the empty string, + as "undefined".   *)
RECURSIVE canonicalJson(_)
canonicalJson(value) ==
    CASE value.t = "array" ->
            "[" \o JoinWith([i \in 1..Len(value.elements) |->
                                IF value.elements[i].t = "undefined" THEN ""
                                ELSE canonicalJson(value.elements[i])], ",") \o "]"
      [] value.t = "object" ->
            LET sorted == SortMembers(value.members)
            IN  "{" \o JoinWith([i \in 1..Len(sorted) |->
                                    JsonStringify(JStr(sorted[i][1])) \o ":" \o
                                    canonicalJson(sorted[i][2])], ",") \o "}"
      [] OTHER -> JsonStringify(value)

(* the truthiness of a value *)
Truthy(j) ==
    /\ j.t \notin {"undefined", "null"}
    /\ ~(j.t = "string" /\ j.v = "")
    /\ ~(j.t = "number" /\ j.v = "0")

IsStringLiteral(text) ==
    /\ Len(text) >= 2
    /\ CharAt(text, 1) = "\""
    /\ CharAt(text, Len(text)) = "\""
    /\ \A i \in 2..(Len(text) - 1) : CharAt(text, i) \notin {"\"", "\\"}

IsNumberLiteral(text) ==
    /\ Len(text) >= 1
    /\ \A i \in 1..Len(text) : CharAt(text, i) \in Digits
    /\ (Len(text) > 1 => CharAt(text, 1) # "0")

(* JSON.parse(text) does not throw *)
JsonParses(text) ==
    text = "null" \/ text = "{}" \/ IsStringLiteral(text) \/ IsNumberLiteral(text)

JsonParse(text) ==
    IF text = "null" THEN JNull
    ELSE IF text = "{}" THEN JObj(<<>>)
    ELSE IF IsStringLiteral(text) THEN JStr(SubSeq(text, 2, Len(text) - 1))
    ELSE JNum(text)

(* "sha256:" + hex digest, taken as collision free: the digest is written  *)
(* as the hashed text itself.                                              *)
sha256(input) == "sha256:" \o input

----------------------------------------------------------------------------
(* Inputs: the EmittedBundle handed to the operation.                      *)

EvidenceItem(kind, text, url, content) ==
    [kind |-> kind, summary |-> text, url |-> url, content |-> content,
     contentHash |-> sha256(content)]

ItemPool ==
    { EvidenceItem("diff", "Diff for org/repo #42", Some("https://x/42.diff"), "tok9"),
      EvidenceItem("metadata", "Event metadata from github", None, "alice") }

ItemLists == UNION { [1..n -> ItemPool] : n \in 0..MaxItems }

(* bundle_id and created_at are strings; "" is the falsy string.           *)
Bundles ==
    { [bundle_id |-> id[1], version |-> "0.2.0", artifactId |-> "org-repo-pr-42",
       riskTier |-> "unknown", scope |-> "github:pull_request:org/repo:#42",
       items |-> its, created_at |-> id[2], provider |-> "github",
       immutability_proof |-> None] :
      id \in {<<"b-1", "2026-01-15T00:00:00.000Z">>, <<"", "">>}, its \in ItemLists }

----------------------------------------------------------------------------
(* The sanitizer (BundleSanitizer.sanitizeText), outside the repository.   *)

NoCounts == [k \in {} |-> 0]

SanitizerResult(text, changed, count, byType, engine) ==
    [sanitizedText |-> text, changed |-> changed, redactionCount |-> count,
     redactionsByType |-> byType, engineName |-> engine,
     engineVersion |-> IF IsSome(engine) THEN Some("1.1.0") ELSE None,
     method |-> IF IsSome(engine) THEN Some("wasm-in-process") ELSE None]

(* What sanitizeText may resolve with for the input text: the text         *)
(* untouched, a redacted text that is JSON, a redacted text that is not.   *)
SanitizerResults(text) ==
    { SanitizerResult(text, FALSE, 0, NoCounts, None),
      SanitizerResult(Quote("[HIDDEN:a1]"), TRUE, 1, [secret |-> 1],
                      Some("pii-shield-wasm")),
      SanitizerResult("[HIDDEN:a1]", TRUE, 1, [email |-> 1], None) }

----------------------------------------------------------------------------
(* Thrown values. message is err.message of an Error and String(err) of    *)
(* any other thrown value.                                                 *)

Error(message) == [isError |-> TRUE, message |-> message]
Thrown(text) == [isError |-> FALSE, message |-> text]

SanitizerErrors == { Error("sanitizer unavailable") }

KernelErrors ==
    { Error("Unsupported bundle VERSION"),
      Error("expected schema 0.2.0"),
      Error("items must not be empty"),
      Thrown("0.2.1 rejected") }

----------------------------------------------------------------------------
(* The kernel (@guardspine/kernel), outside the repository.                *)

KernelStates == {"unavailable", "no-sealBundle", "ok"}

ItemIdOf(item) == IF "item_id" \in DOMAIN item THEN item.item_id ELSE "undefined"
ContentTypeOf(item) ==
    IF "content_type" \in DOMAIN item THEN item.content_type ELSE "undefined"

KernelContentHash(item) == [sha256 |-> item.content]

RootSentinel == [sha256 |-> "genesis"]

KernelChain(its) ==
    [i \in 1..Len(its) |->
        [item_id |-> ItemIdOf(its[i]),
         content_type |-> ContentTypeOf(its[i]),
         content_hash |-> KernelContentHash(its[i]),
         previous_hash |-> IF i = 1 THEN RootSentinel
                           ELSE KernelContentHash(its[i - 1]),
         sequence |-> i - 1]]

KernelItems(its) ==
    [i \in 1..Len(its) |->
        its[i] @@ [content_hash |-> KernelContentHash(its[i]), sequence |-> i - 1]]

KernelProof(d) ==
    [hash_chain |-> KernelChain(d.items), root_hash |-> [sha256 |-> KernelChain(d.items)]]

(* An answer of kernel.sealBundle(d): it throws, or returns undefined, or  *)
(* returns {items, immutabilityProof} with or without the proof.           *)
Throws(e) == [kind |-> "throw", error |-> Some(e), value |-> None]
Returns(v) == [kind |-> "return", error |-> None, value |-> v]

KernelAnswers(d) ==
    { Throws(e) : e \in KernelErrors } \cup
    { Returns(None),
      Returns(Some([items |-> KernelItems(d.items), immutabilityProof |-> None])),
      Returns(Some([items |-> KernelItems(d.items),
                    immutabilityProof |-> Some(KernelProof(d))])) }

----------------------------------------------------------------------------
(* Settling of the promise the operation returned.                         *)

Pending == [state |-> "pending", value |-> None, error |-> None]
Resolved(v) == [state |-> "resolved", value |-> Some(v), error |-> None]
Rejected(e) == [state |-> "rejected", value |-> None, error |-> Some(e)]

SanitizeCall(i, text, result) ==
    [ev |-> "sanitize", index |-> i, text |-> text, result |-> result]
SealCall(d, answer) == [ev |-> "seal", draft |-> d, answer |-> answer]

----------------------------------------------------------------------------
(* buildImportBundle (src/src/importer.ts).                                *)

normalizeItemId(index, kind) == "item-" \o ToString(index) \o "-" \o kind

contentTypeForKind(kind) == "guardspine/webhook/" \o kind

(* mutant: the items are taken last to first *)
ImportItems_Reversed(b) ==
    [i \in 1..Len(b.items) |->
        [item_id |-> normalizeItemId(Len(b.items) - i,
                                     b.items[Len(b.items) + 1 - i].kind),
         content_type |-> contentTypeForKind(b.items[Len(b.items) + 1 - i].kind),
         content |-> JStr(b.items[Len(b.items) + 1 - i].content)]]

(* bundle.items.map(...) of lines 40-44; index is 0-based in the source.   *)
ImportItems(b) ==
    [i \in 1..Len(b.items) |->
        [item_id |-> normalizeItemId(i - 1, b.items[i].kind),
         content_type |-> contentTypeForKind(b.items[i].kind),
         content |-> JStr(b.items[i].content)]]

DefaultSaltFingerprint == "sha256:00000000"

InitialSummary(saltFingerprint) ==
    [engine_name |-> "pii-shield", engine_version |-> "unknown",
     method |-> "provider_native", token_format |-> "[HIDDEN:<id>]",
     salt_fingerprint |-> saltFingerprint, redaction_count |-> 0,
     redactions_by_type |-> NoCounts, status |-> "none",
     applied_to |-> <<"webhook_payload">>,
     input_hash |-> None, output_hash |-> None]

(* mutant: a count of extra replaces the count of base *)
mergeCounts_Overwrite(base, extra) ==
    [k \in DOMAIN base \cup DOMAIN extra |->
        IF k \in DOMAIN extra THEN extra[k] ELSE base[k]]

(* lines 168-178, for counts that are finite numbers (line 175 adds 0 for *)
(* any other value)                                                     *)
mergeCounts(base, extra) ==
    [k \in DOMAIN base \cup DOMAIN extra |->
        (IF k \in DOMAIN base THEN base[k] ELSE 0) +
        (IF k \in DOMAIN extra THEN extra[k] ELSE 0)]

(* lines 215-217 *)
StatusOnChanged(status, result) ==
    IF result.changed THEN "sanitized" ELSE status

(* the catch of lines 223-225 *)
StatusOnParseFailure(status) ==
    IF status = "sanitized" THEN "partial" ELSE "error"

(* summary.status after one iteration of the loop, lines 215-226 *)
StatusAfterItem(status, result) ==
    LET s1 == StatusOnChanged(status, result)
    IN  IF result.changed /\ ~JsonParses(result.sanitizedText)
        THEN StatusOnParseFailure(s1)
        ELSE s1

(* `content` of lines 219-226 *)
ContentAfterItem(item, result) ==
    IF result.changed /\ JsonParses(result.sanitizedText)
    THEN JsonParse(result.sanitizedText)
    ELSE item.content

(* lines 208-217 and 224 *)
SummaryAfterItem(s, result) ==
    [s EXCEPT !.engine_name = OrElse(result.engineName, @),
              !.engine_version = OrElse(result.engineVersion, @),
              !.method = OrElse(result.method, @),
              !.redaction_count = @ + result.redactionCount,
              !.redactions_by_type = mergeCounts(@, result.redactionsByType),
              !.status = StatusAfterItem(@, result)]

(* mutant: the loop stops after the first item *)
LoopDone_Early(i, its) == i > Len(its) \/ i > 1

(* mutant: a parse failure ends the loop *)
LoopDone_OnParseFailure(i, its) ==
    i > Len(its) \/ The(summary).status \in {"partial", "error"}

(* the for..of loop of line 200 has visited every item *)
LoopDone(i, its) == i > Len(its)

(* lines 53-61 *)
WrapItems(its, b) ==
    [i \in 1..Len(its) |->
        [its[i] EXCEPT !.content =
            [kind |-> b.items[i].kind, summary |-> b.items[i].summary,
             url |-> b.items[i].url, content |-> its[i].content]]]

(* mutant: the tag follows the summary's status, not its presence *)
ChooseVersion_ByStatus(sanitization) ==
    IF IsSome(sanitization) /\ The(sanitization).status # "none"
    THEN "0.2.1"
    ELSE "0.2.0"

(* line 63 *)
ChooseVersion(sanitization) == IF IsSome(sanitization) THEN "0.2.1" ELSE "0.2.0"

FreshUuid == "uuid-fresh"
NowIso == "2026-11-02T00:00:00.000Z"

(* a || b on strings *)
OrIfEmpty(a, b) == IF a # "" THEN a ELSE b

(* mutant: a new identifier for every draft *)
BuildDraft_FreshId(b, its, sanitization) ==
    [bundle_id |-> FreshUuid,
     version |-> ChooseVersion(sanitization),
     created_at |-> OrIfEmpty(b.created_at, NowIso),
     items |-> its,
     sanitization |-> sanitization,
     metadata |-> [artifact_id |-> b.artifactId, risk_tier |-> b.riskTier,
                   scope |-> b.scope, provider |-> b.provider]]

(* lines 65-77 *)
BuildDraft(b, its, sanitization) ==
    [bundle_id |-> OrIfEmpty(b.bundle_id, FreshUuid),
     version |-> ChooseVersion(sanitization),
     created_at |-> OrIfEmpty(b.created_at, NowIso),
     items |-> its,
     sanitization |-> sanitization,
     metadata |-> [artifact_id |-> b.artifactId, risk_tier |-> b.riskTier,
                   scope |-> b.scope, provider |-> b.provider]]

(* /(version|0\.2\.0|0\.2\.1)/i.test(message), line 92 *)
VersionPattern(message) ==
    \/ Contains(message, "version", TRUE)
    \/ Contains(message, "0.2.0", FALSE)
    \/ Contains(message, "0.2.1", FALSE)

(* mutant: the catch forgets to look at the version of the draft *)
RetryAllowed_AnyVersion(v, err) == VersionPattern(err.message)

(* lines 90-92: the catch retries *)
RetryAllowed(v, err) == v = "0.2.1" /\ VersionPattern(err.message)

(* mutant: the downgrade drops the sanitization summary *)
DowngradedDraft_DropsSummary(d) ==
    [d EXCEPT !.version = "0.2.0", !.sanitization = None]

(* line 94 *)
DowngradedDraft(d) == [d EXCEPT !.version = "0.2.0"]

(* mutant: the result of the kernel is not checked for a proof *)
ProofMissing_Unchecked(s) == FALSE

(* line 107 *)
ProofMissing(s) == ~IsSome(s.immutabilityProof)

(* mutant: the version tag is chosen again from the summary *)
ImportBundleOf_VersionBySummary(d, v, s) ==
    [bundle_id |-> d.bundle_id,
     version |-> IF IsSome(d.sanitization) THEN "0.2.1" ELSE "0.2.0",
     created_at |-> d.created_at,
     items |-> s.items, sanitization |-> d.sanitization, metadata |-> d.metadata,
     immutability_proof |-> s.immutabilityProof]

(* lines 111-116 *)
ImportBundleOf(d, v, s) ==
    [bundle_id |-> d.bundle_id, version |-> v, created_at |-> d.created_at,
     items |-> s.items, sanitization |-> d.sanitization, metadata |-> d.metadata,
     immutability_proof |-> s.immutabilityProof]

KernelRequired == Error("@guardspine/kernel is required to build import bundles")
KernelMissingSeal == Error("@guardspine/kernel is missing sealBundle()")
NoProofError == Error("Kernel sealing did not return immutability_proof")
TypeError == Error("Cannot read properties of undefined")

(* lines 29-44, and lines 185-199 when a sanitizer was supplied *)
ensureKernel ==
    /\ op = "buildImportBundle" /\ pc = "start"
    /\ \E k \in KernelStates :
        IF k = "unavailable"
        THEN /\ outcome' = Rejected(KernelRequired)
             /\ pc' = "done"
             /\ UNCHANGED <<items, summary>>
        ELSE IF k = "no-sealBundle"
        THEN /\ outcome' = Rejected(KernelMissingSeal)
             /\ pc' = "done"
             /\ UNCHANGED <<items, summary>>
        ELSE /\ items' = ImportItems(bundle)
             /\ summary' = IF sanitizer
                           THEN Some(InitialSummary(DefaultSaltFingerprint))
                           ELSE None
             /\ pc' = IF sanitizer THEN "sanitize" ELSE "draft"
             /\ UNCHANGED outcome
    /\ UNCHANGED <<op, bundle, sanitizer, idx, allRaw, allOutput, sanitizedItems,
                   pending, draft, version, sealed, trace>>
    /\ UNCHANGED attempts
    /\ UNCHANGED otherVars

(* mutant: an item whose sanitizer call rejects is kept as it came *)
sanitizeImportItems_SkipFailed ==
    /\ op = "buildImportBundle" /\ pc = "sanitize"
    /\ ~LoopDone(idx, items)
    /\ LET item == items[idx]
           raw == JsonStringify(item.content)
       IN  \/ \E result \in SanitizerResults(raw) :
                /\ summary' = Some(SummaryAfterItem(The(summary), result))
                /\ allRaw' = Append(allRaw, raw)
                /\ allOutput' = Append(allOutput, result.sanitizedText)
                /\ sanitizedItems' =
                       Append(sanitizedItems,
                              [item EXCEPT !.content = ContentAfterItem(item, result)])
                /\ idx' = idx + 1
                /\ trace' = Append(trace, SanitizeCall(idx, raw, Some(result)))
                /\ UNCHANGED <<pc, outcome>>
           \/ \E e \in SanitizerErrors :
                /\ allRaw' = Append(allRaw, raw)
                /\ allOutput' = Append(allOutput, raw)
                /\ sanitizedItems' = Append(sanitizedItems, item)
                /\ idx' = idx + 1
                /\ trace' = Append(trace, SanitizeCall(idx, raw, None))
                /\ UNCHANGED <<summary, pc, outcome>>
    /\ UNCHANGED <<op, bundle, sanitizer, items, pending, draft, version, sealed>>
    /\ UNCHANGED attempts
    /\ UNCHANGED otherVars

(* one iteration of the loop of sanitizeImportItems, lines 200-229 *)
sanitizeImportItems ==
    /\ op = "buildImportBundle" /\ pc = "sanitize"
    /\ ~LoopDone(idx, items)
    /\ LET item == items[idx]
           raw == JsonStringify(item.content)
       IN  \/ \E result \in SanitizerResults(raw) :
                /\ summary' = Some(SummaryAfterItem(The(summary), result))
                /\ allRaw' = Append(allRaw, raw)
                /\ allOutput' = Append(allOutput, result.sanitizedText)
                /\ sanitizedItems' =
                       Append(sanitizedItems,
                              [item EXCEPT !.content = ContentAfterItem(item, result)])
                /\ idx' = idx + 1
                /\ trace' = Append(trace, SanitizeCall(idx, raw, Some(result)))
                /\ UNCHANGED <<pc, outcome>>
           \/ \E e \in SanitizerErrors :
                /\ outcome' = Rejected(e)
                /\ pc' = "done"
                /\ trace' = Append(trace, SanitizeCall(idx, raw, None))
                /\ UNCHANGED <<summary, allRaw, allOutput, sanitizedItems, idx>>
    /\ UNCHANGED <<op, bundle, sanitizer, items, pending, draft, version, sealed>>
    /\ UNCHANGED attempts
    /\ UNCHANGED otherVars

(* lines 231-234 and 49-50 *)
sanitizeImportItemsReturn ==
    /\ op = "buildImportBundle" /\ pc = "sanitize"
    /\ LoopDone(idx, items)
    /\ summary' = Some([The(summary) EXCEPT
                            !.input_hash = Some(sha256(Join(allRaw))),
                            !.output_hash = Some(sha256(Join(allOutput)))])
    /\ items' = sanitizedItems
    /\ pc' = "draft"
    /\ UNCHANGED <<op, bundle, sanitizer, idx, allRaw, allOutput, sanitizedItems,
                   pending, draft, version, sealed, outcome, trace>>
    /\ UNCHANGED attempts
    /\ UNCHANGED otherVars

(* lines 53-77 *)
buildDraft ==
    /\ op = "buildImportBundle" /\ pc = "draft"
    /\ items' = WrapItems(items, bundle)
    /\ version' = ChooseVersion(summary)
    /\ draft' = Some(BuildDraft(bundle, items', summary))
    /\ pc' = "seal"
    /\ UNCHANGED <<op, bundle, sanitizer, summary, idx, allRaw, allOutput,
                   sanitizedItems, pending, sealed, outcome, trace>>
    /\ UNCHANGED attempts
    /\ UNCHANGED otherVars

(* the first kernel.sealBundle(draft), lines 83-88, and the decision of    *)
(* the catch, lines 90-104                                                 *)
sealDraft ==
    /\ op = "buildImportBundle" /\ pc = "seal"
    /\ \E a \in KernelAnswers(The(draft)) :
        /\ trace' = Append(trace, SealCall(The(draft), a))
        /\ IF a.kind = "return"
           THEN /\ sealed' = a.value
                /\ pc' = "check"
                /\ UNCHANGED outcome
           ELSE IF RetryAllowed(version, The(a.error))
           THEN /\ pc' = "retry"
                /\ UNCHANGED <<sealed, outcome>>
           ELSE /\ outcome' = Rejected(The(a.error))
                /\ pc' = "done"
                /\ UNCHANGED sealed
    /\ UNCHANGED <<op, bundle, sanitizer, items, summary, idx, allRaw, allOutput,
                   sanitizedItems, pending, draft, version>>
    /\ UNCHANGED attempts
    /\ UNCHANGED otherVars

(* lines 93-98: the retry inside the catch; what it throws is not caught   *)
sealRetry ==
    /\ op = "buildImportBundle" /\ pc = "retry"
    /\ version' = "0.2.0"
    /\ draft' = Some(DowngradedDraft(The(draft)))
    /\ \E a \in KernelAnswers(The(draft')) :
        /\ trace' = Append(trace, SealCall(The(draft'), a))
        /\ IF a.kind = "return"
           THEN /\ sealed' = a.value
                /\ pc' = "check"
                /\ UNCHANGED outcome
           ELSE /\ outcome' = Rejected(The(a.error))
                /\ pc' = "done"
                /\ UNCHANGED sealed
    /\ UNCHANGED <<op, bundle, sanitizer, items, summary, idx, allRaw, allOutput,
                   sanitizedItems, pending>>
    /\ UNCHANGED attempts
    /\ UNCHANGED otherVars

(* lines 107-116; reading a property of undefined throws a TypeError *)
returnImportBundle ==
    /\ op = "buildImportBundle" /\ pc = "check"
    /\ outcome' =
        IF ~IsSome(sealed) THEN Rejected(TypeError)
        ELSE IF ProofMissing(The(sealed)) THEN Rejected(NoProofError)
        ELSE Resolved(ImportBundleOf(The(draft), version, The(sealed)))
    /\ pc' = "done"
    /\ UNCHANGED <<op, bundle, sanitizer, items, summary, idx, allRaw, allOutput,
                   sanitizedItems, pending, draft, version, sealed, trace>>
    /\ UNCHANGED attempts
    /\ UNCHANGED otherVars

(* the caller calls buildImportBundle again with the bundle of a call that *)
(* was rejected                                                            *)
buildImportBundle_again ==
    /\ op = "buildImportBundle" /\ pc = "done"
    /\ outcome.state = "rejected"
    /\ Len(attempts) + 1 < MaxAttempts
    /\ attempts' = Append(attempts, outcome.state)
    /\ pc' = "start"
    /\ items' = <<>>
    /\ summary' = None
    /\ idx' = 1
    /\ allRaw' = <<>>
    /\ allOutput' = <<>>
    /\ sanitizedItems' = <<>>
    /\ draft' = None
    /\ version' = "0.2.0"
    /\ sealed' = None
    /\ outcome' = Pending
    /\ trace' = <<>>
    /\ UNCHANGED <<op, bundle, sanitizer, pending>>
    /\ UNCHANGED otherVars

----------------------------------------------------------------------------
(* BundleEmitter.sealBundle of src/src/bundle-emitter.ts, lines 56-84.     *)

(* lines 74-78 *)
SealedBundleOf(b, s) ==
    [b EXCEPT !.items = s.items, !.immutability_proof = s.immutabilityProof]

(* lines 57-67: the kernel is imported; without it, or without its         *)
(* sealBundle, the bundle is returned as it came                           *)
sealBundle_import ==
    /\ op = "sealBundle" /\ pc = "start"
    /\ \E k \in KernelStates :
        IF k = "ok"
        THEN pc' = "seal" /\ UNCHANGED outcome
        ELSE pc' = "done" /\ outcome' = Resolved(bundle)
    /\ UNCHANGED <<op, bundle, sanitizer, items, summary, idx, allRaw, allOutput,
                   sanitizedItems, pending, draft, version, sealed, trace>>
    /\ UNCHANGED attempts
    /\ UNCHANGED otherVars

(* lines 69-83: whatever is thrown inside the try (by the kernel, or by    *)
(* reading sealed.items of undefined) is caught and the bundle returned    *)
sealBundle_seal ==
    /\ op = "sealBundle" /\ pc = "seal"
    /\ \E a \in KernelAnswers(bundle) :
        /\ trace' = Append(trace, SealCall(bundle, a))
        /\ sealed' = a.value
        /\ outcome' = IF a.kind = "return" /\ IsSome(a.value)
                      THEN Resolved(SealedBundleOf(bundle, The(a.value)))
                      ELSE Resolved(bundle)
    /\ pc' = "done"
    /\ UNCHANGED <<op, bundle, sanitizer, items, summary, idx, allRaw, allOutput,
                   sanitizedItems, pending, draft, version>>
    /\ UNCHANGED attempts
    /\ UNCHANGED otherVars

----------------------------------------------------------------------------
(* BundleEmitter.sealBundle of src/unnamed/part_000, lines 253-335.        *)

HardKernelRequired ==
    Error("@guardspine/kernel is required for bundle sealing. " \o
          "Install with: npm install @guardspine/kernel")
HardKernelMissingSeal ==
    Error("@guardspine/kernel.sealBundle is not available. " \o
          "Ensure you have kernel version >= 0.2.0")
HardNoProof == Error("Kernel sealing did not return immutability proof")

(* lines 327-334 *)
FailedToSeal(err) ==
    Error("Failed to seal bundle: " \o err.message \o ". " \o
          "Bundle integrity cannot be guaranteed.")

(* the async callback of lines 279-288, once sanitizeText has resolved *)
SanitizedEvidenceItem(item, result) ==
    IF result.changed
    THEN [item EXCEPT !.content = result.sanitizedText,
                      !.contentHash = sha256(result.sanitizedText)]
    ELSE item

(* lines 295-315 *)
HardDraft(b, its) ==
    [bundle_id |-> b.bundle_id,
     version |-> "0.2.0",
     created_at |-> b.created_at,
     items |-> [i \in 1..Len(its) |->
                  [item_id |-> normalizeItemId(i - 1, its[i].kind),
                   content_type |-> contentTypeForKind(its[i].kind),
                   content |-> [kind |-> its[i].kind, summary |-> its[i].summary,
                                url |-> its[i].url, content |-> its[i].content]]],
     metadata |-> [artifact_id |-> b.artifactId, risk_tier |-> b.riskTier,
                   scope |-> b.scope, provider |-> b.provider]]

(* lines 323-326: ...bundle keeps bundle.items, not the local `items` *)
HardSealedBundleOf(b, s) ==
    [b EXCEPT !.immutability_proof = s.immutabilityProof]

(* lines 254-271 and 276-289: the kernel is imported; with a sanitizer,    *)
(* items.map starts one sanitizeText call per item before any completes    *)
sealBundleHard_import ==
    /\ op = "sealBundleHard" /\ pc = "start"
    /\ \E k \in KernelStates :
        IF k = "unavailable"
        THEN /\ outcome' = Rejected(HardKernelRequired)
             /\ pc' = "done"
             /\ UNCHANGED <<items, pending>>
        ELSE IF k = "no-sealBundle"
        THEN /\ outcome' = Rejected(HardKernelMissingSeal)
             /\ pc' = "done"
             /\ UNCHANGED <<items, pending>>
        ELSE /\ items' = bundle.items
             /\ pending' = IF sanitizer THEN DOMAIN bundle.items ELSE {}
             /\ pc' = "await"
             /\ UNCHANGED outcome
    /\ UNCHANGED <<op, bundle, sanitizer, summary, idx, allRaw, allOutput,
                   sanitizedItems, draft, version, sealed, trace>>
    /\ UNCHANGED attempts
    /\ UNCHANGED otherVars

(* mutant: each result is stored at the next free index, in the order in   *)
(* which the calls complete                                                *)
sealBundleHard_sanitized_Push ==
    /\ op = "sealBundleHard" /\ pc = "await"
    /\ \E i \in pending :
        LET item == bundle.items[i]
            free == Len(bundle.items) - Cardinality(pending) + 1
        IN  \/ \E result \in SanitizerResults(item.content) :
                 /\ items' = [items EXCEPT ![free] = SanitizedEvidenceItem(item, result)]
                 /\ pending' = pending \ {i}
                 /\ trace' = Append(trace, SanitizeCall(i, item.content, Some(result)))
                 /\ UNCHANGED <<pc, outcome>>
            \/ \E e \in SanitizerErrors :
                 /\ outcome' = Rejected(FailedToSeal(e))
                 /\ pc' = "done"
                 /\ pending' = pending \ {i}
                 /\ trace' = Append(trace, SanitizeCall(i, item.content, None))
                 /\ UNCHANGED items
    /\ UNCHANGED <<op, bundle, sanitizer, summary, idx, allRaw, allOutput,
                   sanitizedItems, draft, version, sealed>>
    /\ UNCHANGED attempts
    /\ UNCHANGED otherVars

(* one of the calls in flight settles; Promise.all keeps each result at    *)
(* the index of its item, and rejects as soon as one call rejects          *)
sealBundleHard_sanitized ==
    /\ op = "sealBundleHard" /\ pc = "await"
    /\ \E i \in pending :
        LET item == bundle.items[i]
        IN  \/ \E result \in SanitizerResults(item.content) :
                 /\ items' = [items EXCEPT ![i] = SanitizedEvidenceItem(item, result)]
                 /\ pending' = pending \ {i}
                 /\ trace' = Append(trace, SanitizeCall(i, item.content, Some(result)))
                 /\ UNCHANGED <<pc, outcome>>
            \/ \E e \in SanitizerErrors :
                 /\ outcome' = Rejected(FailedToSeal(e))
                 /\ pc' = "done"
                 /\ pending' = pending \ {i}
                 /\ trace' = Append(trace, SanitizeCall(i, item.content, None))
                 /\ UNCHANGED items
    /\ UNCHANGED <<op, bundle, sanitizer, summary, idx, allRaw, allOutput,
                   sanitizedItems, draft, version, sealed>>
    /\ UNCHANGED attempts
    /\ UNCHANGED otherVars

(* lines 295-334 *)
sealBundleHard_seal ==
    /\ op = "sealBundleHard" /\ pc = "await" /\ pending = {}
    /\ draft' = Some(HardDraft(bundle, items))
    /\ \E a \in KernelAnswers(The(draft')) :
        /\ trace' = Append(trace, SealCall(The(draft'), a))
        /\ sealed' = a.value
        /\ outcome' =
            IF a.kind = "throw" THEN Rejected(FailedToSeal(The(a.error)))
            ELSE IF ~IsSome(a.value) \/ ProofMissing(The(a.value))
            THEN Rejected(FailedToSeal(HardNoProof))
            ELSE Resolved(HardSealedBundleOf(bundle, The(a.value)))
    /\ pc' = "done"
    /\ UNCHANGED <<op, bundle, sanitizer, items, summary, idx, allRaw, allOutput,
                   sanitizedItems, pending, version>>
    /\ UNCHANGED attempts
    /\ UNCHANGED otherVars

----------------------------------------------------------------------------
(* BundleEmitter.fromEvent, src/src/bundle-emitter.ts:33-171 (content of   *)
(* the items written with JSON.stringify) and src/unnamed/part_000:224-430 *)
(* (written with canonicalJson).                                           *)

MaxCalls == 3

(* BundleEmitterConfig as the caller gives it; riskLabels and riskPaths    *)
(* list their members in the order of Object.entries.                      *)
TestConfig ==
    [defaultRiskTier |-> None,
     riskPaths |-> Some(<< <<"critical", <<"src/auth/">> >> >>),
     riskLabels |-> Some(<< <<"bug", "high">> >>)]

Configs ==
    { [defaultRiskTier |-> None, riskPaths |-> None, riskLabels |-> None],
      TestConfig,
      [defaultRiskTier |-> Some("medium"),
       riskPaths |-> Some(<< <<"critical", <<"infra/">> >>,
                             <<"elevated", <<"lib/", "src/">> >> >>),
       riskLabels |-> Some(<< <<"docs", "low">>, <<"bug", "high">> >>)],
      [defaultRiskTier |-> Some("low"),
       riskPaths |-> Some(<< <<"critical", <<"src/auth/">> >> >>),
       riskLabels |-> Some(<< <<"wip", "">>, <<"bug", "high">> >>)] }

(* the constructor, lines 21-27 *)
BundleEmitter(c) ==
    [defaultRiskTier |-> OrElse(c.defaultRiskTier, "unknown"),
     riskPaths |-> OrElse(c.riskPaths, <<>>),
     riskLabels |-> OrElse(c.riskLabels, <<>>)]

(* a payload with objects at two levels *)
NestedPayload ==
    JObj(<< <<"b", JObj(<< <<"d", JNum("1")>>, <<"c", JStr("x")>> >>)>>,
            <<"a", JArr(<<JNum("2"), JNum("1")>>)>> >>)

(* WebhookEvent, the fields that the emitter reads; the events with the    *)
(* nested payload have no labels, changed files or action                  *)
Events ==
    { e \in
        { [provider |-> "github", eventType |-> eventType, repo |-> "org/sub/repo",
           prNumber |-> prNumber, sha |-> sha, diffUrl |-> diffUrl,
           author |-> Some("alice"), labels |-> labels,
           changedFiles |-> changedFiles, action |-> action,
           rawPayload |-> rawPayload] :
          eventType \in {"push", "check_run"},
          prNumber \in {None, Some(0), Some(42)},
          sha \in {None, Some(""), Some("abc"), Some("0123456789ab")},
          diffUrl \in {None, Some("https://x/42.diff")},
          labels \in {<<>>, <<"docs", "bug">>, <<"constructor", "bug">>,
                      <<"wip", "bug">>},
          changedFiles \in {<<>>, <<"README.md", "src/auth/x">>},
          action \in {None, Some("opened")},
          rawPayload \in {JUndefined, JObj(<<>>), NestedPayload} } :
      e.rawPayload = NestedPayload =>
          e.labels = <<>> /\ e.changedFiles = <<>> /\ e.action = None }

(* the events that differ in what inferRiskTier reads *)
RiskEvents ==
    { e \in Events : /\ e.eventType = "push" /\ e.prNumber = None
                     /\ e.sha = None /\ e.diffUrl = None /\ e.action = None
                     /\ e.rawPayload = JUndefined }

(* the emitter and the event of a behaviour: every event under the         *)
(* configuration of the tests, and every configuration under RiskEvents    *)
EmitterInputs ==
    ({TestConfig} \X Events) \cup (Configs \X RiskEvents)

(* the orders in which the members of seq can be listed *)
RECURSIVE Orders(_)
Orders(seq) ==
    IF seq = <<>> THEN {<<>>}
    ELSE UNION { { <<seq[i]>> \o rest : rest \in Orders(RemoveAt(seq, i)) } :
                 i \in DOMAIN seq }

(* the values that differ from j only in the key order of its objects *)
RECURSIVE KeyOrders(_)
KeyOrders(j) ==
    CASE j.t = "array" ->
            { JArr(elements) :
                elements \in { f \in [DOMAIN j.elements ->
                                        UNION { KeyOrders(j.elements[i]) :
                                                i \in DOMAIN j.elements }] :
                                 \A i \in DOMAIN j.elements :
                                     f[i] \in KeyOrders(j.elements[i]) } }
      [] j.t = "object" ->
            UNION { { JObj(members) :
                        members \in { f \in [DOMAIN o ->
                                               UNION { { <<o[i][1], w>> :
                                                         w \in KeyOrders(o[i][2]) } :
                                                       i \in DOMAIN o }] :
                                        \A i \in DOMAIN o :
                                            /\ f[i][1] = o[i][1]
                                            /\ f[i][2] \in KeyOrders(o[i][2]) } } :
                    o \in Orders(j.members) }
      [] OTHER -> {j}

(* the events a call of fromEvent may be given: the event of the           *)
(* behaviour, or the same event with the keys of its payload reordered     *)
CallEvents(e) == { [e EXCEPT !.rawPayload = p] : p \in KeyOrders(e.rawPayload) }

(* mutant: only the first occurrence is replaced *)
ReplaceAll_First(s, c, r) ==
    IF \E i \in 1..Len(s) : CharAt(s, i) = c
    THEN LET i == CHOOSE i \in 1..Len(s) :
                    CharAt(s, i) = c /\ \A h \in 1..(i - 1) : CharAt(s, h) # c
         IN  SubSeq(s, 1, i - 1) \o r \o SubSeq(s, i + 1, Len(s))
    ELSE s

(* String.prototype.replace(/c/g, r) for a one-character pattern *)
RECURSIVE ReplaceAll(_, _, _)
ReplaceAll(s, c, r) ==
    IF s = "" THEN ""
    ELSE (IF CharAt(s, 1) = c THEN r ELSE CharAt(s, 1)) \o
         ReplaceAll(SubSeq(s, 2, Len(s)), c, r)

(* String.prototype.slice(0, n) *)
SliceTo(s, n) == SubSeq(s, 1, IF Len(s) < n THEN Len(s) ELSE n)

StartsWith(s, prefix) ==
    Len(prefix) <= Len(s) /\ SubSeq(s, 1, Len(prefix)) = prefix

(* the truthiness of an optional string *)
TruthyString(o) == IsSome(o) /\ The(o) # ""

(* Date.now() and randomUUID() of the n-th call *)
DateNow(n) == 1000 + n
RandomUuid(n) == "uuid-" \o ToString(n)
IsoString(n) == "2026-11-02T00:00:0" \o ToString(n) \o ".000Z"

(* mutant: the timestamp suffix is used whenever there is no PR number *)
buildArtifactId_Timestamp(e, now) ==
    LET base == ReplaceAll(e.repo, "/", "-")
    IN  IF IsSome(e.prNumber) THEN base \o "-pr-" \o ToString(The(e.prNumber))
        ELSE base \o "-" \o ToString(now)

(* lines 86-95 *)
buildArtifactId(e, now) ==
    LET base == ReplaceAll(e.repo, "/", "-")
    IN  IF IsSome(e.prNumber) THEN base \o "-pr-" \o ToString(The(e.prNumber))
        ELSE IF TruthyString(e.sha) THEN base \o "-" \o SliceTo(The(e.sha), 8)
        ELSE base \o "-" \o ToString(now)

(* the names that every object literal inherits from Object.prototype *)
ObjectPrototype == {"constructor", "toString", "valueOf", "hasOwnProperty"}

(* obj[key] on an object literal whose own members are strings *)
GetProperty(members, key) ==
    IF \E i \in DOMAIN members : members[i][1] = key
    THEN JStr(members[CHOOSE i \in DOMAIN members : members[i][1] = key][2])
    ELSE IF key \in ObjectPrototype THEN [t |-> "function", v |-> key]
    ELSE JUndefined

(* lines 97-114; the result is a string unless the looked-up property is   *)
(* an inherited one                                                        *)
inferRiskTier(e, cfg) ==
    LET hit(i) == Truthy(GetProperty(cfg.riskLabels, e.labels[i]))
        match(k) == \E q \in DOMAIN cfg.riskPaths[k][2] :
                        \E f \in DOMAIN e.changedFiles :
                            StartsWith(e.changedFiles[f], cfg.riskPaths[k][2][q])
    IN  IF \E i \in DOMAIN e.labels : hit(i)
        THEN LET i == CHOOSE i \in DOMAIN e.labels :
                        hit(i) /\ \A h \in 1..(i - 1) : ~hit(h)
             IN  GetProperty(cfg.riskLabels, e.labels[i])
        ELSE IF \E k \in DOMAIN cfg.riskPaths : match(k)
        THEN LET k == CHOOSE k \in DOMAIN cfg.riskPaths :
                        match(k) /\ \A h \in 1..(k - 1) : ~match(h)
             IN  JStr(cfg.riskPaths[k][1])
        ELSE JStr(cfg.defaultRiskTier)

(* lines 116-125 *)
buildScope(e) ==
    JoinWith(<<e.provider, e.eventType, e.repo>>
             \o (IF IsSome(e.prNumber) THEN <<"#" \o ToString(The(e.prNumber))>> ELSE <<>>)
             \o (IF TruthyString(e.action) THEN <<The(e.action)>> ELSE <<>>),
             ":")

OptionalString(o) == IF IsSome(o) THEN JStr(The(o)) ELSE JUndefined

StringArray(seq) == JArr([i \in DOMAIN seq |-> JStr(seq[i])])

(* the object literal of lines 147-153 *)
MetaPayload(e) ==
    JObj(<< <<"repo", JStr(e.repo)>>,
            <<"author", OptionalString(e.author)>>,
            <<"sha", OptionalString(e.sha)>>,
            <<"labels", StringArray(e.labels)>>,
            <<"changedFiles", StringArray(e.changedFiles)>> >>)

(* JSON.stringify in src/src/bundle-emitter.ts, canonicalJson in           *)
(* src/unnamed/part_000                                                    *)
Serialize(canonical, value) ==
    IF canonical THEN canonicalJson(value) ELSE JsonStringify(value)

(* mutant: the hash of the diff item is taken over its URL *)
DiffItem_HashOfUrl(e, diffContent) ==
    [kind |-> "diff",
     summary |-> "Diff for " \o e.repo \o
                 (IF IsSome(e.prNumber) THEN " #" \o ToString(The(e.prNumber)) ELSE ""),
     url |-> e.diffUrl,
     content |-> diffContent,
     contentHash |-> sha256(The(e.diffUrl))]

(* lines 135-141 *)
DiffItem(e, diffContent) ==
    [kind |-> "diff",
     summary |-> "Diff for " \o e.repo \o
                 (IF IsSome(e.prNumber) THEN " #" \o ToString(The(e.prNumber)) ELSE ""),
     url |-> e.diffUrl,
     content |-> diffContent,
     contentHash |-> sha256(diffContent)]

(* lines 127-171 *)
buildItems(e, canonical) ==
    (IF TruthyString(e.diffUrl)
     THEN <<DiffItem(e, IF Truthy(e.rawPayload)
                        THEN Serialize(canonical, e.rawPayload)
                        ELSE The(e.diffUrl))>>
     ELSE <<>>)
    \o <<[kind |-> "metadata",
          summary |-> "Event metadata from " \o e.provider,
          url |-> None,
          content |-> Serialize(canonical, MetaPayload(e)),
          contentHash |-> sha256(Serialize(canonical, MetaPayload(e)))]>>
    \o (IF e.eventType = "check_run" /\ Truthy(e.rawPayload)
        THEN <<[kind |-> "check_result",
                summary |-> "CI check run result",
                url |-> None,
                content |-> Serialize(canonical, e.rawPayload),
                contentHash |-> sha256(Serialize(canonical, e.rawPayload))]>>
        ELSE <<>>)

(* lines 33-49, for the n-th call *)
EmittedBundle(e, cfg, canonical, n) ==
    [bundle_id |-> RandomUuid(n),
     version |-> "0.2.0",
     artifactId |-> buildArtifactId(e, DateNow(n)),
     riskTier |-> inferRiskTier(e, cfg),
     scope |-> buildScope(e),
     items |-> buildItems(e, canonical),
     created_at |-> IsoString(n),
     provider |-> e.provider]

(* one call of fromEvent of src/src/bundle-emitter.ts *)
fromEvent ==
    /\ op = "fromEvent"
    /\ Len(emitted) < MaxCalls
    /\ \E e \in CallEvents(event) :
          emitted' = Append(emitted,
                            [event |-> e,
                             bundle |-> EmittedBundle(e, config, FALSE,
                                                      Len(emitted) + 1)])
    /\ UNCHANGED <<op, pc, sealVars, outcome, trace>>
    /\ UNCHANGED <<config, event, values, encoded, providers, request>>
    /\ UNCHANGED <<post, wasm, http>>

(* one call of fromEvent of src/unnamed/part_000 *)
fromEventCanonical ==
    /\ op = "fromEventCanonical"
    /\ Len(emitted) < MaxCalls
    /\ \E e \in CallEvents(event) :
          emitted' = Append(emitted,
                            [event |-> e,
                             bundle |-> EmittedBundle(e, config, TRUE,
                                                      Len(emitted) + 1)])
    /\ UNCHANGED <<op, pc, sealVars, outcome, trace>>
    /\ UNCHANGED <<config, event, values, encoded, providers, request>>
    /\ UNCHANGED <<post, wasm, http>>

----------------------------------------------------------------------------
(* canonicalJson, src/unnamed/part_000:455-465, applied to two values.     *)

MaxLen == 2

Leaves == {JNum("1"), JStr("1")}

Keys == <<"a", "B">>

(* the lists of at most MaxLen values of S *)
Lists(S) == UNION { [1..n -> S] : n \in 0..MaxLen }

(* the member lists over S: distinct keys of Keys, in any insertion order *)
MemberLists(S) ==
    { m \in Lists({ <<Keys[k], x>> : k \in DOMAIN Keys, x \in S }) :
        \A i, h \in DOMAIN m : i # h => m[i][1] # m[h][1] }

(* arrays and objects of leaves *)
Containers ==
    { JArr(l) : l \in Lists(Leaves) } \cup { JObj(m) : m \in MemberLists(Leaves) }

(* arrays and objects that hold one container *)
Nested ==
    { JArr(<<x>>) : x \in Containers }
    \cup { JObj(<< <<"a", x>> >>) : x \in Containers }
    \cup { JObj(<< <<"a", x>>, <<"B", JNull>> >>) : x \in Containers }
    \cup { JObj(<< <<"B", JNull>>, <<"a", x>> >>) : x \in Containers }

JsonValues == {JNull} \cup Leaves \cup Containers \cup Nested

(* both values are encoded *)
canonicalJsonCall ==
    /\ op = "canonicalJson"
    /\ encoded = None
    /\ encoded' = Some(<<canonicalJson(values[1]), canonicalJson(values[2])>>)
    /\ UNCHANGED <<op, pc, sealVars, outcome, trace>>
    /\ UNCHANGED <<config, event, emitted, values, providers, request>>
    /\ UNCHANGED <<post, wasm, http>>

----------------------------------------------------------------------------
(* WebhookHandler.handleRequest, src/unnamed/part_004:53-79, with the      *)
(* providers of the repository.                                            *)

MaxProviders == 2

(* GitHubProvider with and without a secret, GitLabProvider with a secret  *)
(* token, GenericProvider                                                  *)
ProviderPool ==
    { [name |-> "github", secret |-> None],
      [name |-> "github", secret |-> Some("s3cret")],
      [name |-> "gitlab", secret |-> Some("t0ken")],
      [name |-> "generic", secret |-> None] }

(* the lists the constructor accepts (lines 33-38): not empty *)
ProviderLists == UNION { [1..n -> ProviderPool] : n \in 1..MaxProviders }

Bodies == {"{}", "oops"}

(* HMAC-SHA256 hex digest, taken as collision free *)
Hmac(secret, body) == secret \o "/" \o body

(* headers as Object.entries lists them, keys in the case of the sender *)
HeaderLists(body) ==
    { gh \o gl \o sig \o tok :
        gh \in {<<>>, << <<"X-GitHub-Event", "push">> >>},
        gl \in {<<>>, << <<"X-Gitlab-Event", "Push Hook">> >>},
        sig \in {<<>>,
                 << <<"X-Hub-Signature-256", "sha256=" \o Hmac("s3cret", body)>> >>,
                 << <<"X-Hub-Signature-256", "sha256=bad">> >>,
                 << <<"X-Hub-Signature-256", "sha256=bad">>,
                    <<"x-hub-signature-256", "sha256=" \o Hmac("s3cret", body)>> >>},
        tok \in {<<>>, << <<"X-Gitlab-Token", "t0ken">> >>,
                 << <<"X-Gitlab-Token", "guess">> >>} }

Requests ==
    { [headers |-> h, body |-> body, normalized |-> None] :
        body \in Bodies, h \in UNION { HeaderLists(b) : b \in Bodies } }

(* mutant: the keys keep their case *)
Normalize_KeepCase(headers) ==
    [k \in { headers[i][1] : i \in DOMAIN headers } |->
        headers[CHOOSE i \in DOMAIN headers :
                    /\ headers[i][1] = k
                    /\ \A h \in DOMAIN headers : headers[h][1] = k => h <= i][2]]

(* lines 58-61: the last value written under a lowercased key stays *)
Normalize(headers) ==
    [k \in { ToLowerCase(headers[i][1]) : i \in DOMAIN headers } |->
        headers[CHOOSE i \in DOMAIN headers :
                    /\ ToLowerCase(headers[i][1]) = k
                    /\ \A h \in DOMAIN headers :
                          ToLowerCase(headers[h][1]) = k => h <= i][2]]

(* headers[key] *)
Header(headers, key) == IF key \in DOMAIN headers THEN Some(headers[key]) ELSE None

NamedError(name, message) == [isError |-> TRUE, name |-> name, message |-> message]

NoMatchingProviderError ==
    NamedError("NoMatchingProviderError",
               "No webhook provider matched the incoming request headers")

SignatureValidationError(provider, reason) ==
    NamedError("SignatureValidationError",
               "Signature validation failed for provider \"" \o provider
               \o "\": " \o reason)

(* mutant: GenericProvider matches no request *)
matches_GenericNever(p, headers) ==
    CASE p.name = "github" -> "x-github-event" \in DOMAIN headers
      [] p.name = "gitlab" -> "x-gitlab-event" \in DOMAIN headers
      [] OTHER -> FALSE

(* matches() of GitHubProvider, GitLabProvider and GenericProvider *)
matches(p, headers) ==
    CASE p.name = "github" -> "x-github-event" \in DOMAIN headers
      [] p.name = "gitlab" -> "x-gitlab-event" \in DOMAIN headers
      [] OTHER -> TRUE

(* mutant: a credential that is present is not compared *)
validate_PresenceOnly(p, headers, body) ==
    CASE p.name = "github" ->
            IF ~TruthyString(p.secret) THEN None
            ELSE IF ~TruthyString(Header(headers, "x-hub-signature-256"))
            THEN Some(Error("Missing X-Hub-Signature-256 header"))
            ELSE None
      [] p.name = "gitlab" ->
            IF ~TruthyString(p.secret) THEN None
            ELSE IF ~TruthyString(Header(headers, "x-gitlab-token"))
            THEN Some(Error("Missing X-Gitlab-Token header"))
            ELSE None
      [] OTHER -> None

(* validate(): the error thrown, None when it returns *)
validate(p, headers, body) ==
    CASE p.name = "github" ->
            IF ~TruthyString(p.secret) THEN None
            ELSE IF ~TruthyString(Header(headers, "x-hub-signature-256"))
            THEN Some(Error("Missing X-Hub-Signature-256 header"))
            ELSE IF headers["x-hub-signature-256"] #
                        "sha256=" \o Hmac(The(p.secret), body)
            THEN Some(Error("Signature mismatch"))
            ELSE None
      [] p.name = "gitlab" ->
            IF ~TruthyString(p.secret) THEN None
            ELSE IF ~TruthyString(Header(headers, "x-gitlab-token"))
            THEN Some(Error("Missing X-Gitlab-Token header"))
            ELSE IF headers["x-gitlab-token"] # The(p.secret)
            THEN Some(Error("Token mismatch"))
            ELSE None
      [] OTHER -> None

(* parse(): the promise it returns, settled; of the event the fields that  *)
(* come from the headers and the body                                      *)
parse(p, headers, body) ==
    IF ~JsonParses(body)
    THEN Rejected(IF p.name = "generic"
                  THEN Error("GenericProvider: request body is not valid JSON")
                  ELSE Error("Unexpected token o in JSON at position 0"))
    ELSE Resolved([provider |-> p.name,
                   rawEventType |->
                       CASE p.name = "github" ->
                               OrElse(Header(headers, "x-github-event"), "unknown")
                         [] p.name = "gitlab" ->
                               OrElse(Header(headers, "x-gitlab-event"), "unknown")
                         [] OTHER -> "unknown",
                   rawPayload |-> JsonParse(body)])

MatchesCall(i, headers, result) ==
    [ev |-> "matches", index |-> i, headers |-> headers, result |-> result]
ValidateCall(i, headers, body, error) ==
    [ev |-> "validate", index |-> i, headers |-> headers, body |-> body,
     error |-> error]
ParseCall(i, headers, body) ==
    [ev |-> "parse", index |-> i, headers |-> headers, body |-> body]

IsMatches(c) == c.ev = "matches"

(* how many providers find() has asked so far *)
Consulted == Len(SelectSeq(trace, IsMatches))

(* lines 57-61 *)
handleRequest_normalize ==
    /\ op = "handleRequest" /\ pc = "start"
    /\ request' = [request EXCEPT !.normalized = Some(Normalize(request.headers))]
    /\ pc' = "find"
    /\ UNCHANGED <<op, sealVars, outcome, trace>>
    /\ UNCHANGED <<config, event, emitted, values, encoded, providers>>
    /\ UNCHANGED <<post, wasm, http>>

(* line 63: find() calls matches() of the next provider and stops at the   *)
(* first that returns true                                                 *)
handleRequest_find ==
    /\ op = "handleRequest" /\ pc = "find"
    /\ Consulted < Len(providers)
    /\ LET i == Consulted + 1
           result == matches(providers[i], The(request.normalized))
       IN  /\ trace' = Append(trace, MatchesCall(i, The(request.normalized), result))
           /\ pc' = IF result THEN "validate" ELSE "find"
    /\ UNCHANGED <<op, sealVars, outcome>>
    /\ UNCHANGED otherVars

(* lines 64-66: find() returned undefined *)
handleRequest_noMatch ==
    /\ op = "handleRequest" /\ pc = "find"
    /\ Consulted = Len(providers)
    /\ outcome' = Rejected(NoMatchingProviderError)
    /\ pc' = "done"
    /\ UNCHANGED <<op, sealVars, trace>>
    /\ UNCHANGED otherVars

(* lines 68-76 *)
handleRequest_validate ==
    /\ op = "handleRequest" /\ pc = "validate"
    /\ LET provider == providers[Consulted]
           err == validate(provider, The(request.normalized), request.body)
       IN  /\ trace' = Append(trace, ValidateCall(Consulted, The(request.normalized),
                                                  request.body, err))
           /\ IF IsSome(err)
              THEN /\ outcome' = Rejected(
                         IF "name" \in DOMAIN The(err)
                            /\ The(err).name = "SignatureValidationError"
                         THEN The(err)
                         ELSE SignatureValidationError(provider.name, The(err).message))
                   /\ pc' = "done"
              ELSE /\ pc' = "parse"
                   /\ UNCHANGED outcome
    /\ UNCHANGED <<op, sealVars>>
    /\ UNCHANGED otherVars

(* line 78 *)
handleRequest_parse ==
    /\ op = "handleRequest" /\ pc = "parse"
    /\ LET provider == providers[Consulted]
       IN  /\ trace' = Append(trace, ParseCall(Consulted, The(request.normalized),
                                               request.body))
           /\ outcome' = parse(provider, The(request.normalized), request.body)
    /\ pc' = "done"
    /\ UNCHANGED <<op, sealVars>>
    /\ UNCHANGED otherVars

----------------------------------------------------------------------------
(* postImportBundle (src/src/importer.ts, lines 119-154).                  *)

(* a sealed bundle to submit; its content plays no part in the call *)
SealedBundle ==
    [bundle_id |-> "b-1", version |-> "0.2.1",
     created_at |-> "2026-01-01T00:00:00.000Z"]

(* GuardSpineImportOptions *)
ImportOptions ==
    [baseUrl : {"https://gs.example", "https://gs.example/v2/", "gs.example"},
     token : {None, Some(""), Some("tok")},
     headers : {None, Some([Authorization |-> "Basic abc"])},
     timeoutMs : {None, Some(0)}]

(* base parses as an absolute URL *)
IsAbsoluteUrl(base) == StartsWith(base, "https://") /\ Len(base) > 8

(* scheme and authority of an absolute URL *)
Origin(base) ==
    LET slashes == { i \in 9..Len(base) : CharAt(base, i) = "/" }
    IN  IF slashes = {} THEN base
        ELSE SubSeq(base, 1, (CHOOSE i \in slashes : \A h \in slashes : i <= h) - 1)

(* new URL(path, base).toString() for a path that starts with "/" *)
NewUrl(path, base) == Origin(base) \o path

InvalidUrl == NamedError("TypeError", "Invalid URL")

(* lines 124-130 *)
RequestHeaders(options) ==
    LET given == IF IsSome(options.headers) THEN The(options.headers)
                 ELSE [k \in {} |-> ""]
        spread == [k \in {"Content-Type"} \cup DOMAIN given |->
                      IF k \in DOMAIN given THEN given[k] ELSE "application/json"]
    IN  IF TruthyString(options.token)
        THEN [k \in DOMAIN spread \cup {"Authorization"} |->
                 IF k = "Authorization" THEN "Bearer " \o The(options.token)
                 ELSE spread[k]]
        ELSE spread

DefaultTimeoutMs == 10000

FetchCall(url, headers, body, ms) ==
    [ev |-> "fetch", url |-> url, method |-> "POST", headers |-> headers,
     body |-> body, timeoutMs |-> ms]

(* what the server may answer *)
Statuses == {200, 299, 300, 404, 500}
Texts == {"", "{}", "oops"}

(* how fetch() or response.text() fails *)
NetworkErrors == { NamedError("TypeError", "fetch failed") }
AbortError == NamedError("AbortError", "This operation was aborted")

(* response.ok *)
ResponseOk(status) == status >= 200 /\ status <= 299

(* lines 156-162 *)
safeJsonParse(text) == IF JsonParses(text) THEN JsonParse(text) ELSE JStr(text)

(* mutant: the body text is reported as the error of every response *)
ImportResponse_ErrorAlways(status, text) ==
    [ok |-> ResponseOk(status), status |-> status,
     data |-> IF text # "" THEN safeJsonParse(text) ELSE JUndefined,
     error |-> Some(text)]

(* lines 144-150 *)
ImportResponse(status, text) ==
    [ok |-> ResponseOk(status), status |-> status,
     data |-> IF text # "" THEN safeJsonParse(text) ELSE JUndefined,
     error |-> IF ResponseOk(status) THEN None ELSE Some(text)]

(* clearTimeout(timeout), line 152 *)
ClearTimeout(timer) == IF timer = "armed" THEN "cleared" ELSE timer

(* lines 123-142: the URL, the headers, the timer and the call of fetch *)
postImportBundle_request ==
    /\ op = "postImportBundle" /\ pc = "start"
    /\ LET options == The(post).options
       IN  IF ~IsAbsoluteUrl(options.baseUrl)
           THEN /\ outcome' = Rejected(InvalidUrl)
                /\ pc' = "done"
                /\ UNCHANGED <<trace, post>>
           ELSE /\ trace' = Append(trace,
                        FetchCall(NewUrl("/api/v1/bundles/import", options.baseUrl),
                                  RequestHeaders(options),
                                  [stringified |-> The(post).bundle],
                                  OrElse(options.timeoutMs, DefaultTimeoutMs)))
                /\ post' = Some([The(post) EXCEPT !.timer = "armed"])
                /\ pc' = "fetch"
                /\ UNCHANGED outcome
    /\ UNCHANGED <<op, sealVars>>
    /\ UNCHANGED <<config, event, emitted, values, encoded, providers, request,
                   wasm, http>>

(* line 134: the timer fires and aborts the request *)
postImportBundle_abort ==
    /\ op = "postImportBundle" /\ pc \in {"fetch", "text"}
    /\ The(post).timer = "armed"
    /\ post' = Some([The(post) EXCEPT !.timer = "fired", !.aborted = TRUE])
    /\ UNCHANGED <<op, pc, sealVars, outcome, trace>>
    /\ UNCHANGED <<config, event, emitted, values, encoded, providers, request,
                   wasm, http>>

(* line 137: fetch resolves with the response head *)
postImportBundle_response ==
    /\ op = "postImportBundle" /\ pc = "fetch"
    /\ ~The(post).aborted
    /\ \E status \in Statuses :
          post' = Some([The(post) EXCEPT !.status = Some(status)])
    /\ pc' = "text"
    /\ UNCHANGED <<op, sealVars, outcome, trace>>
    /\ UNCHANGED <<config, event, emitted, values, encoded, providers, request,
                   wasm, http>>

(* lines 137 and 151-153: fetch rejects; there is no catch clause, the     *)
(* finally clause clears the timer and the error leaves the function       *)
postImportBundle_fetchFails ==
    /\ op = "postImportBundle" /\ pc = "fetch"
    /\ \E e \in IF The(post).aborted THEN {AbortError} ELSE NetworkErrors :
          /\ post' = Some([The(post) EXCEPT !.timer = ClearTimeout(@),
                                            !.failure = Some(e)])
          /\ outcome' = Rejected(e)
    /\ pc' = "done"
    /\ UNCHANGED <<op, sealVars, trace>>
    /\ UNCHANGED <<config, event, emitted, values, encoded, providers, request,
                   wasm, http>>

(* lines 143-153: the body is read and the response is returned *)
postImportBundle_return ==
    /\ op = "postImportBundle" /\ pc = "text"
    /\ ~The(post).aborted
    /\ \E text \in Texts :
          /\ post' = Some([The(post) EXCEPT !.timer = ClearTimeout(@),
                                            !.text = Some(text)])
          /\ outcome' = Resolved(ImportResponse(The(The(post).status), text))
    /\ pc' = "done"
    /\ UNCHANGED <<op, sealVars, trace>>
    /\ UNCHANGED <<config, event, emitted, values, encoded, providers, request,
                   wasm, http>>

(* lines 143 and 151-153: response.text() rejects *)
postImportBundle_textFails ==
    /\ op = "postImportBundle" /\ pc = "text"
    /\ \E e \in IF The(post).aborted THEN {AbortError} ELSE NetworkErrors :
          /\ post' = Some([The(post) EXCEPT !.timer = ClearTimeout(@),
                                            !.failure = Some(e)])
          /\ outcome' = Rejected(e)
    /\ pc' = "done"
    /\ UNCHANGED <<op, sealVars, trace>>
    /\ UNCHANGED <<config, event, emitted, values, encoded, providers, request,
                   wasm, http>>

----------------------------------------------------------------------------
(* PIIShieldSanitizer.sanitizeText, the WASM sanitizer                     *)
(* (src/src/providers/generic.ts, lines 153-243).                          *)

(* String.prototype.trim *)
RECURSIVE Trim(_)
Trim(s) ==
    IF s = "" THEN ""
    ELSE IF CharAt(s, 1) \in {" ", "\n"} THEN Trim(SubSeq(s, 2, Len(s)))
    ELSE IF CharAt(s, Len(s)) \in {" ", "\n"} THEN Trim(SubSeq(s, 1, Len(s) - 1))
    ELSE s

(* text.endsWith("\n") ? text : text + "\n", line 162 *)
WithNewline(text) ==
    IF text # "" /\ CharAt(text, Len(text)) = "\n" THEN text ELSE text \o "\n"

(* (s.match(/\[HIDDEN/g) || []).length *)
CountHidden(s) ==
    Cardinality({ i \in 1..(Len(s) - 6) : SubSeq(s, i, i + 6) = "[HIDDEN" })

(* what the module may have written to its stdout file when it ends *)
WasmOutputs(text) == {WithNewline(text), "[HIDDEN:a1] [HIDDEN:b2]\n", ""}

(* the three files, in the order in which lines 167-169 open them *)
TempFiles == <<"inFile", "outFile", "errFile">>

(* lines 216-230 *)
WasmResult(text, resultText) ==
    LET sanitizedText == Trim(resultText)
        changes == sanitizedText # Trim(text)
    IN  [sanitizedText |-> sanitizedText,
         changed |-> changes,
         redactionCount |-> IF changes THEN CountHidden(sanitizedText) ELSE 0,
         redactionsByType |-> NoCounts,
         engineName |-> Some("pii-shield-wasm"),
         engineVersion |-> Some("1.0.0"),
         method |-> Some("wasm-in-process"),
         inputHash |-> Some(sha256(text)),
         outputHash |-> Some(sha256(sanitizedText))]

(* lines 237-241: the files are unlinked in turn inside one try block;     *)
(* unlinking a file that does not exist throws and ends the block          *)
RECURSIVE Unlinked(_, _)
Unlinked(files, k) ==
    IF k > Len(TempFiles) \/ TempFiles[k] \notin files THEN files
    ELSE Unlinked(files \ {TempFiles[k]}, k + 1)

(* lines 154-163: the input is written; a write that fails may leave the   *)
(* file behind                                                             *)
wasmSanitize_write ==
    /\ op = "wasmSanitizeText" /\ pc = "start"
    /\ \/ /\ wasm' = Some([The(wasm) EXCEPT !.files = {"inFile"}])
          /\ pc' = "open"
       \/ \E left \in {{}, {"inFile"}} :
            /\ wasm' = Some([The(wasm) EXCEPT
                                !.files = left,
                                !.thrown = Some(Error("ENOSPC: no space left on device, write"))])
            /\ pc' = "finally"
    /\ UNCHANGED <<op, sealVars, outcome, trace>>
    /\ UNCHANGED <<config, event, emitted, values, encoded, providers, request,
                   post, http>>

(* lines 167-169: the files are opened in turn; n of the calls succeed *)
wasmSanitize_open ==
    /\ op = "wasmSanitizeText" /\ pc = "open"
    /\ \E n \in 0..Len(TempFiles) :
          /\ wasm' = Some([The(wasm) EXCEPT
                !.fds = { TempFiles[k] : k \in 1..n },
                !.files = @ \cup { TempFiles[k] : k \in 2..n },
                !.thrown = IF n = Len(TempFiles) THEN None
                           ELSE Some(Error("EMFILE: too many open files, open"))])
          /\ pc' = IF n = Len(TempFiles) THEN "load" ELSE "finally"
    /\ UNCHANGED <<op, sealVars, outcome, trace>>
    /\ UNCHANGED <<config, event, emitted, values, encoded, providers, request,
                   post, http>>

(* lines 173-185: the module is read, compiled and instantiated *)
wasmSanitize_load ==
    /\ op = "wasmSanitizeText" /\ pc = "load"
    /\ \/ /\ pc' = "run"
          /\ UNCHANGED wasm
       \/ \E e \in { Error("ENOENT: no such file or directory, open pii-shield.wasm"),
                     Error("WebAssembly.compile(): expected magic word") } :
            /\ wasm' = Some([The(wasm) EXCEPT !.thrown = Some(e)])
            /\ pc' = "finally"
    /\ UNCHANGED <<op, sealVars, outcome, trace>>
    /\ UNCHANGED <<config, event, emitted, values, encoded, providers, request,
                   post, http>>

(* lines 189-230: the module runs (what it throws is swallowed), the       *)
(* descriptors are closed, the output is read and the result is built      *)
wasmSanitize_run ==
    /\ op = "wasmSanitizeText" /\ pc = "run"
    /\ \E resultText \in WasmOutputs(The(wasm).text) :
          wasm' = Some([The(wasm) EXCEPT
                           !.fds = {},
                           !.result = Some(WasmResult(The(wasm).text, resultText))])
    /\ pc' = "finally"
    /\ UNCHANGED <<op, sealVars, outcome, trace>>
    /\ UNCHANGED <<config, event, emitted, values, encoded, providers, request,
                   post, http>>

(* lines 232-242: the error is thrown again, after the finally clause has  *)
(* unlinked the files                                                      *)
wasmSanitize_finally ==
    /\ op = "wasmSanitizeText" /\ pc = "finally"
    /\ wasm' = Some([The(wasm) EXCEPT !.files = Unlinked(@, 1)])
    /\ outcome' = IF IsSome(The(wasm).thrown) THEN Rejected(The(The(wasm).thrown))
                  ELSE Resolved(The(The(wasm).result))
    /\ pc' = "done"
    /\ UNCHANGED <<op, sealVars, trace>>
    /\ UNCHANGED <<config, event, emitted, values, encoded, providers, request,
                   post, http>>

----------------------------------------------------------------------------
(* PIIShieldSanitizer.sanitizeText, the HTTP sanitizer                     *)
(* (src/src/providers/generic.ts, lines 254-359).                          *)

(* PIIShieldSanitizerOptions *)
SanitizerOptions ==
    [endpoint : {"https://pii.example/sanitize"},
     apiKey : {None, Some("key")},
     timeoutMs : {None, Some(100)}]

DefaultSanitizerTimeoutMs == 5000

(* the constructor, lines 259-263 *)
PIIShieldSanitizer(options) ==
    [endpoint |-> options.endpoint, apiKey |-> options.apiKey,
     timeoutMs |-> OrElse(options.timeoutMs, DefaultSanitizerTimeoutMs)]

(* what response.json() may resolve with *)
HttpBodies ==
    { JObj(<< <<"sanitized_text", JStr("[HIDDEN:a1]")>>,
              <<"redaction_count", JNum("1")>>,
              <<"redactions_by_type", JObj(<< <<"email", JNum("1")>> >>)>>,
              <<"engine_version", JStr("1.2.0")>> >>),
      JObj(<< <<"redacted_text", JStr("tok9")>> >>),
      JObj(<< <<"status", JStr("ok")>> >>),
      JObj(<< <<"sanitized_text", JNull>>,
              <<"output", JStr("[HIDDEN:a1] [HIDDEN:b2]")>>,
              <<"redactions", JArr(<< JObj(<< <<"type", JStr("email")>> >>),
                                      JObj(<< <<"label", JStr("email")>> >>),
                                      JStr("x") >>)>> >>),
      JObj(<< <<"sanitized_text", JNum("2")>>, <<"text", JStr("tok9")>> >>),
      JNull }

(* body[key] on an object that JSON.parse made *)
Member(j, key) ==
    IF j.t = "object" /\ \E i \in DOMAIN j.members : j.members[i][1] = key
    THEN j.members[CHOOSE i \in DOMAIN j.members : j.members[i][1] = key][2]
    ELSE JUndefined

Nullish(j) == j.t \in {"undefined", "null"}

(* a ?? b ?? ... over a sequence of values: the first that is not nullish, *)
(* and the last otherwise                                                  *)
RECURSIVE Coalesce(_)
Coalesce(js) ==
    IF Len(js) = 1 \/ ~Nullish(Head(js)) THEN Head(js) ELSE Coalesce(Tail(js))

(* Number(value), None for NaN *)
NumberOf(j) ==
    CASE j.t \in {"number", "string"} /\ j.v = "0" -> Some(0)
      [] j.t \in {"number", "string"} /\ j.v = "1" -> Some(1)
      [] j.t \in {"number", "string"} /\ j.v = "2" -> Some(2)
      [] j.t = "null" -> Some(0)
      [] OTHER -> None

(* lines 347-355 *)
LabelOf(entry) ==
    IF entry.t = "object"
    THEN Coalesce(<<Member(entry, "type"), Member(entry, "category"),
                    Member(entry, "label"), JStr("unknown")>>).v
    ELSE "unknown"

(* lines 327-359 *)
extractRedactionsByType(body) ==
    LET raw == Member(body, "redactions_by_type")
        redactions == Member(body, "redactions")
    IN  IF raw.t = "object"
        THEN [k \in { raw.members[i][1] : i \in
                        { h \in DOMAIN raw.members : IsSome(NumberOf(raw.members[h][2])) } }
                 |-> The(NumberOf(Member(raw, k)))]
        ELSE IF redactions.t # "array" THEN NoCounts
        ELSE [k \in { LabelOf(redactions.elements[i]) : i \in DOMAIN redactions.elements }
                 |-> Cardinality({ i \in DOMAIN redactions.elements :
                                      LabelOf(redactions.elements[i]) = k })]

(* Object.values(counts).reduce((sum, value) => sum + value, 0) *)
RECURSIVE SumValues(_)
SumValues(counts) ==
    IF DOMAIN counts = {} THEN 0
    ELSE LET k == CHOOSE k \in DOMAIN counts : TRUE
         IN  counts[k] + SumValues([h \in DOMAIN counts \ {k} |-> counts[h]])

(* lines 294-298 *)
SanitizedTextOf(body) ==
    Coalesce(<<Member(body, "sanitized_text"), Member(body, "redacted_text"),
               Member(body, "text"), Member(body, "output")>>)

NoSanitizedText == Error("PII-Shield response did not include sanitized_text")

(* lines 304-320 *)
HttpResult(text, body) ==
    LET sanitizedText == SanitizedTextOf(body).v
        redactionsByType == extractRedactionsByType(body)
        count == NumberOf(Coalesce(<<Member(body, "redaction_count"), JUndefined>>))
    IN  [sanitizedText |-> sanitizedText,
         changed |-> sanitizedText # text,
         redactionCount |-> IF IsSome(count) THEN The(count)
                            ELSE SumValues(redactionsByType),
         redactionsByType |-> redactionsByType,
         engineName |-> Some("pii-shield"),
         engineVersion |->
             LET v == Coalesce(<<Member(body, "engine_version"),
                                 Member(body, "schema_version")>>)
             IN  IF Nullish(v) THEN None ELSE Some(v.v),
         method |-> Some("provider_native"),
         inputHash |-> Some(sha256(text)),
         outputHash |-> Some(sha256(sanitizedText))]

(* mutant: without a sanitized text the input is returned as it came *)
HttpOutcome_PassThrough(text, body) ==
    IF body.t = "null" THEN Rejected(NamedError("TypeError", "Cannot read properties of null"))
    ELSE IF SanitizedTextOf(body).t # "string"
    THEN Resolved([sanitizedText |-> text, changed |-> FALSE, redactionCount |-> 0,
                   redactionsByType |-> NoCounts, engineName |-> Some("pii-shield"),
                   engineVersion |-> None, method |-> Some("provider_native"),
                   inputHash |-> Some(sha256(text)),
                   outputHash |-> Some(sha256(text))])
    ELSE Resolved(HttpResult(text, body))

(* lines 293-320, once response.json() has resolved with body *)
HttpOutcome(text, body) ==
    IF body.t = "null" THEN Rejected(NamedError("TypeError", "Cannot read properties of null"))
    ELSE IF SanitizedTextOf(body).t # "string" THEN Rejected(NoSanitizedText)
    ELSE Resolved(HttpResult(text, body))

(* lines 266-288: the timer is set and the request is sent *)
httpSanitize_request ==
    /\ op = "httpSanitizeText" /\ pc = "start"
    /\ LET this == The(http).this
       IN  trace' = Append(trace,
              FetchCall(this.endpoint,
                        IF TruthyString(this.apiKey)
                        THEN [k \in {"Content-Type", "Authorization"} |->
                                 IF k = "Authorization"
                                 THEN "Bearer " \o The(this.apiKey)
                                 ELSE "application/json"]
                        ELSE [k \in {"Content-Type"} |-> "application/json"],
                        [stringified |->
                            [text |-> The(http).text,
                             input_format |-> The(http).request.inputFormat,
                             include_findings |->
                                 OrElse(The(http).request.includeFindings, FALSE),
                             deterministic |-> TRUE,
                             preserve_line_numbers |-> TRUE,
                             purpose |-> The(http).request.purpose]],
                        this.timeoutMs))
    /\ http' = Some([The(http) EXCEPT !.timer = "armed"])
    /\ pc' = "fetch"
    /\ UNCHANGED <<op, sealVars, outcome>>
    /\ UNCHANGED <<config, event, emitted, values, encoded, providers, request,
                   post, wasm>>

(* line 267: the timer fires and aborts the request *)
httpSanitize_abort ==
    /\ op = "httpSanitizeText" /\ pc \in {"fetch", "json"}
    /\ The(http).timer = "armed"
    /\ http' = Some([The(http) EXCEPT !.timer = "fired", !.aborted = TRUE])
    /\ UNCHANGED <<op, pc, sealVars, outcome, trace>>
    /\ UNCHANGED <<config, event, emitted, values, encoded, providers, request,
                   post, wasm>>

(* lines 276-291 and 321-323: fetch resolves; a status that is not ok is   *)
(* thrown as an error                                                      *)
httpSanitize_response ==
    /\ op = "httpSanitizeText" /\ pc = "fetch"
    /\ ~The(http).aborted
    /\ \E status \in Statuses :
          IF ResponseOk(status)
          THEN /\ http' = Some([The(http) EXCEPT !.status = Some(status)])
               /\ pc' = "json"
               /\ UNCHANGED outcome
          ELSE /\ http' = Some([The(http) EXCEPT !.status = Some(status),
                                                 !.timer = ClearTimeout(@)])
               /\ outcome' = Rejected(Error("PII-Shield request failed ("
                                           \o ToString(status) \o ")"))
               /\ pc' = "done"
    /\ UNCHANGED <<op, sealVars, trace>>
    /\ UNCHANGED <<config, event, emitted, values, encoded, providers, request,
                   post, wasm>>

(* lines 276 and 321-323: fetch rejects *)
httpSanitize_fetchFails ==
    /\ op = "httpSanitizeText" /\ pc = "fetch"
    /\ \E e \in IF The(http).aborted THEN {AbortError} ELSE NetworkErrors :
          /\ http' = Some([The(http) EXCEPT !.timer = ClearTimeout(@),
                                            !.failure = Some(e)])
          /\ outcome' = Rejected(e)
    /\ pc' = "done"
    /\ UNCHANGED <<op, sealVars, trace>>
    /\ UNCHANGED <<config, event, emitted, values, encoded, providers, request,
                   post, wasm>>

(* lines 293-323: response.json() resolves *)
httpSanitize_return ==
    /\ op = "httpSanitizeText" /\ pc = "json"
    /\ ~The(http).aborted
    /\ \E body \in HttpBodies :
          /\ http' = Some([The(http) EXCEPT !.timer = ClearTimeout(@),
                                            !.body = Some(body)])
          /\ outcome' = HttpOutcome(The(http).text, body)
    /\ pc' = "done"
    /\ UNCHANGED <<op, sealVars, trace>>
    /\ UNCHANGED <<config, event, emitted, values, encoded, providers, request,
                   post, wasm>>

(* lines 293 and 321-323: response.json() rejects: the body is not JSON,   *)
(* the connection broke or the request was aborted                         *)
httpSanitize_jsonFails ==
    /\ op = "httpSanitizeText" /\ pc = "json"
    /\ \E e \in IF The(http).aborted THEN {AbortError}
                ELSE NetworkErrors \cup
                     {NamedError("SyntaxError", "Unexpected token o in JSON at position 0")} :
          /\ http' = Some([The(http) EXCEPT !.timer = ClearTimeout(@),
                                            !.failure = Some(e)])
          /\ outcome' = Rejected(e)
    /\ pc' = "done"
    /\ UNCHANGED <<op, sealVars, trace>>
    /\ UNCHANGED <<config, event, emitted, values, encoded, providers, request,
                   post, wasm>>

----------------------------------------------------------------------------

(* the operations and whether each takes a sanitizer *)
Operations ==
    { <<"buildImportBundle", FALSE>>, <<"buildImportBundle", TRUE>>,
      <<"sealBundle", FALSE>>,
      <<"sealBundleHard", FALSE>>, <<"sealBundleHard", TRUE>> }

(* the variables of the operations that do input and output, while another *)
(* operation runs                                                          *)
IoIdle ==
    /\ post = None
    /\ wasm = None
    /\ http = None

(* the variables of the other operations, while a sealing operation runs *)
OtherIdle ==
    /\ config = None
    /\ event = None
    /\ emitted = <<>>
    /\ values = <<>>
    /\ encoded = None
    /\ providers = <<>>
    /\ request = None
    /\ IoIdle

(* the variables of the sealing operations, while another operation runs *)
SealIdle ==
    /\ bundle = None
    /\ sanitizer = FALSE
    /\ items = <<>>
    /\ summary = None
    /\ idx = 1
    /\ allRaw = <<>>
    /\ allOutput = <<>>
    /\ sanitizedItems = <<>>
    /\ pending = {}
    /\ draft = None
    /\ version = "0.2.0"
    /\ sealed = None
    /\ attempts = <<>>

InitSeal ==
    /\ \E o \in Operations : op = o[1] /\ sanitizer = o[2]
    /\ pc = "start"
    /\ bundle \in Bundles
    /\ items = <<>>
    /\ summary = None
    /\ idx = 1
    /\ allRaw = <<>>
    /\ allOutput = <<>>
    /\ sanitizedItems = <<>>
    /\ pending = {}
    /\ draft = None
    /\ version = "0.2.0"
    /\ sealed = None
    /\ attempts = <<>>
    /\ outcome = Pending
    /\ trace = <<>>
    /\ OtherIdle

InitFromEvent ==
    /\ op \in {"fromEvent", "fromEventCanonical"}
    /\ pc = "start"
    /\ \E input \in EmitterInputs :
          /\ config = BundleEmitter(input[1])
          /\ event = input[2]
    /\ emitted = <<>>
    /\ values = <<>>
    /\ encoded = None
    /\ providers = <<>>
    /\ request = None
    /\ IoIdle
    /\ outcome = Pending
    /\ trace = <<>>
    /\ SealIdle

InitCanonicalJson ==
    /\ op = "canonicalJson"
    /\ pc = "start"
    /\ values \in JsonValues \X JsonValues
    /\ encoded = None
    /\ config = None
    /\ event = None
    /\ emitted = <<>>
    /\ providers = <<>>
    /\ request = None
    /\ IoIdle
    /\ outcome = Pending
    /\ trace = <<>>
    /\ SealIdle

InitHandleRequest ==
    /\ op = "handleRequest"
    /\ pc = "start"
    /\ providers \in ProviderLists
    /\ request \in Requests
    /\ IoIdle
    /\ config = None
    /\ event = None
    /\ emitted = <<>>
    /\ values = <<>>
    /\ encoded = None
    /\ outcome = Pending
    /\ trace = <<>>
    /\ SealIdle

InitPostImportBundle ==
    /\ op = "postImportBundle"
    /\ pc = "start"
    /\ \E options \in ImportOptions :
          post = Some([bundle |-> SealedBundle, options |-> options,
                       timer |-> "unset", aborted |-> FALSE, status |-> None,
                       text |-> None, failure |-> None])
    /\ wasm = None
    /\ http = None
    /\ config = None
    /\ event = None
    /\ emitted = <<>>
    /\ values = <<>>
    /\ encoded = None
    /\ providers = <<>>
    /\ request = None
    /\ outcome = Pending
    /\ trace = <<>>
    /\ SealIdle

InitWasmSanitize ==
    /\ op = "wasmSanitizeText"
    /\ pc = "start"
    /\ \E text \in {"tok9", "alice\n"} :
          wasm = Some([text |-> text, files |-> {}, fds |-> {}, thrown |-> None,
                       result |-> None])
    /\ post = None
    /\ http = None
    /\ config = None
    /\ event = None
    /\ emitted = <<>>
    /\ values = <<>>
    /\ encoded = None
    /\ providers = <<>>
    /\ request = None
    /\ outcome = Pending
    /\ trace = <<>>
    /\ SealIdle

InitHttpSanitize ==
    /\ op = "httpSanitizeText"
    /\ pc = "start"
    /\ \E options \in SanitizerOptions, text \in {"tok9", "alice"},
          findings \in {None, Some(TRUE)} :
          http = Some([this |-> PIIShieldSanitizer(options), text |-> text,
                       request |-> [inputFormat |-> "json",
                                    includeFindings |-> findings,
                                    purpose |-> "webhook_payload"],
                       timer |-> "unset", aborted |-> FALSE, status |-> None,
                       body |-> None, failure |-> None])
    /\ post = None
    /\ wasm = None
    /\ config = None
    /\ event = None
    /\ emitted = <<>>
    /\ values = <<>>
    /\ encoded = None
    /\ providers = <<>>
    /\ request = None
    /\ outcome = Pending
    /\ trace = <<>>
    /\ SealIdle

Init ==
    \/ InitSeal
    \/ InitFromEvent
    \/ InitCanonicalJson
    \/ InitHandleRequest
    \/ InitPostImportBundle
    \/ InitWasmSanitize
    \/ InitHttpSanitize

Next ==
    \/ ensureKernel
    \/ sanitizeImportItems
    \/ sanitizeImportItemsReturn
    \/ buildDraft
    \/ sealDraft
    \/ sealRetry
    \/ returnImportBundle
    \/ buildImportBundle_again
    \/ sealBundle_import
    \/ sealBundle_seal
    \/ sealBundleHard_import
    \/ sealBundleHard_sanitized
    \/ sealBundleHard_seal
    \/ fromEvent
    \/ fromEventCanonical
    \/ canonicalJsonCall
    \/ handleRequest_normalize
    \/ handleRequest_find
    \/ handleRequest_noMatch
    \/ handleRequest_validate
    \/ handleRequest_parse
    \/ postImportBundle_request
    \/ postImportBundle_abort
    \/ postImportBundle_response
    \/ postImportBundle_fetchFails
    \/ postImportBundle_return
    \/ postImportBundle_textFails
    \/ wasmSanitize_write
    \/ wasmSanitize_open
    \/ wasmSanitize_load
    \/ wasmSanitize_run
    \/ wasmSanitize_finally
    \/ httpSanitize_request
    \/ httpSanitize_abort
    \/ httpSanitize_response
    \/ httpSanitize_fetchFails
    \/ httpSanitize_return
    \/ httpSanitize_jsonFails

Spec == Init /\ [][Next]_vars

----------------------------------------------------------------------------
(* Observations on the trace.                                              *)

IsSeal(e) == e.ev = "seal"
IsSanitize(e) == e.ev = "sanitize"

SealCalls == SelectSeq(trace, IsSeal)
SanitizeCalls == SelectSeq(trace, IsSanitize)

(* the answer carries an immutability proof *)
HasProof(a) ==
    a.kind = "return" /\ IsSome(a.value) /\ IsSome(The(a.value).immutabilityProof)

(* the sanitizer resolved, reported a change, and JSON.parse accepts / *)
(* rejects its text                                                    *)
ChangedCall(c) == IsSome(c.result) /\ The(c.result).changed
ParsedCall(c) == ChangedCall(c) /\ JsonParses(The(c.result).sanitizedText)
FailedCall(c) == ChangedCall(c) /\ ~JsonParses(The(c.result).sanitizedText)

(* the messages of KernelErrors that /(version|0\.2\.0|0\.2\.1)/i matches *)
VersionErrors ==
    { Error("Unsupported bundle VERSION"), Error("expected schema 0.2.0"),
      Thrown("0.2.1 rejected") }

InImport == op = "buildImportBundle"

----------------------------------------------------------------------------
(* C1: buildImportBundle settles by rejecting or by resolving with an      *)
(* ImportBundle whose immutability_proof is present: it resolves only when *)
(* the last answer of the kernel carried a proof, and with that proof.     *)
C1_NeverResolvesUnsealed ==
    InImport =>
        /\ (pc = "done" <=> outcome.state \in {"resolved", "rejected"})
        /\ outcome.state = "resolved" =>
            /\ IsSome(The(outcome.value).immutability_proof)
            /\ SealCalls # <<>>
            /\ HasProof(SealCalls[Len(SealCalls)].answer)
            /\ The(outcome.value).immutability_proof =
                   The(SealCalls[Len(SealCalls)].answer.value).immutabilityProof

(* C1 witness: the kernel returned a result without a proof and the call   *)
(* was rejected.                                                           *)
C1_Witness ==
    /\ InImport /\ pc = "done"
    /\ SealCalls # <<>>
    /\ SealCalls[Len(SealCalls)].answer.kind = "return"
    /\ IsSome(SealCalls[Len(SealCalls)].answer.value)
    /\ ~HasProof(SealCalls[Len(SealCalls)].answer)
    /\ outcome = Rejected(NoProofError)

InSealBundle == op \in {"sealBundle", "sealBundleHard"}

(* C2: BundleEmitter.sealBundle never resolves with a bundle that has no   *)
(* immutability_proof: it resolves only when the kernel returned a proof   *)
(* and rejects otherwise.                                                  *)
C2_SealBundleFailsHard ==
    (InSealBundle /\ pc = "done") =>
        /\ outcome.state \in {"resolved", "rejected"}
        /\ outcome.state = "resolved" =>
            /\ IsSome(The(outcome.value).immutability_proof)
            /\ SealCalls # <<>>
            /\ HasProof(SealCalls[Len(SealCalls)].answer)

(* The same statement for the sealBundle of src/unnamed/part_000 alone.    *)
SealBundleHardFailsHard ==
    (op = "sealBundleHard" /\ pc = "done") =>
        /\ outcome.state \in {"resolved", "rejected"}
        /\ outcome.state = "resolved" =>
            /\ IsSome(The(outcome.value).immutability_proof)
            /\ SealCalls # <<>>
            /\ HasProof(SealCalls[Len(SealCalls)].answer)

(* C3: once a "0.2.1" draft was rejected with a version error and the call *)
(* has moved on, the kernel was invoked exactly once more, with the same   *)
(* draft but version "0.2.0" and the sanitization summary attached; a      *)
(* proof returned by that second attempt is the proof of the result.       *)
C3_DowngradeRetry ==
    (/\ InImport /\ pc \in {"check", "done"}
     /\ SealCalls # <<>>
     /\ SealCalls[1].draft.version = "0.2.1"
     /\ SealCalls[1].answer.kind = "throw"
     /\ The(SealCalls[1].answer.error) \in VersionErrors)
    =>
        /\ Len(SealCalls) = 2
        /\ SealCalls[2].draft = [SealCalls[1].draft EXCEPT !.version = "0.2.0"]
        /\ SealCalls[2].draft.items = SealCalls[1].draft.items
        /\ SealCalls[2].draft.bundle_id = SealCalls[1].draft.bundle_id
        /\ IsSome(SealCalls[2].draft.sanitization)
        /\ (pc = "done" /\ HasProof(SealCalls[2].answer)) =>
            /\ outcome.state = "resolved"
            /\ The(outcome.value).immutability_proof =
                   The(SealCalls[2].answer.value).immutabilityProof

(* C3 witness: a downgrade retry that returned a proof. *)
C3_Witness ==
    /\ InImport /\ pc = "done"
    /\ Len(SealCalls) = 2
    /\ SealCalls[1].draft.version = "0.2.1"
    /\ The(SealCalls[1].answer.error) = Error("Unsupported bundle VERSION")
    /\ HasProof(SealCalls[2].answer)
    /\ outcome.state = "resolved"
    /\ Len(bundle.items) = MaxItems

(* C4: the kernel is invoked at most twice and never twice with the same   *)
(* version; a second attempt exists only after a version rejection of a    *)
(* "0.2.1" draft; every other rejection ends the call at once, and the     *)
(* last rejection is what the caller gets.                                 *)
C4_RetryOnlyOnVersion ==
    InImport =>
        /\ Len(SealCalls) <= 2
        /\ Len(SealCalls) = 2 =>
            /\ SealCalls[1].draft.version = "0.2.1"
            /\ SealCalls[2].draft.version = "0.2.0"
            /\ SealCalls[1].answer.kind = "throw"
            /\ The(SealCalls[1].answer.error) \in VersionErrors
        /\ (/\ Len(SealCalls) = 1
            /\ SealCalls[1].answer.kind = "throw"
            /\ \/ SealCalls[1].draft.version = "0.2.0"
               \/ The(SealCalls[1].answer.error) \notin VersionErrors)
           => (pc = "done" /\ outcome = Rejected(The(SealCalls[1].answer.error)))
        /\ (Len(SealCalls) = 2 /\ SealCalls[2].answer.kind = "throw")
           => (pc = "done" /\ outcome = Rejected(The(SealCalls[2].answer.error)))

(* C4 witness: a "0.2.0" draft rejected with a version message, and a      *)
(* non-version rejection of a "0.2.1" draft, both without a retry.         *)
C4_Witness ==
    /\ InImport /\ pc = "done"
    /\ Len(SealCalls) = 1
    /\ SealCalls[1].answer.kind = "throw"
    /\ \/ /\ SealCalls[1].draft.version = "0.2.0"
          /\ The(SealCalls[1].answer.error) = Error("Unsupported bundle VERSION")
       \/ /\ SealCalls[1].draft.version = "0.2.1"
          /\ The(SealCalls[1].answer.error) = Error("items must not be empty")
    /\ outcome.state = "rejected"

(* C5: the first draft handed to the kernel has version "0.2.1" exactly    *)
(* when a sanitizer was supplied (a sanitization summary is attached),     *)
(* whatever the summary's status, and "0.2.0" otherwise.                   *)
C5_InitialVersion ==
    (InImport /\ SealCalls # <<>>) =>
        /\ SealCalls[1].draft.version = (IF sanitizer THEN "0.2.1" ELSE "0.2.0")
        /\ IsSome(SealCalls[1].draft.sanitization) <=> sanitizer

(* C5 witness: a sanitizer that changed nothing (status "none") and a      *)
(* first draft tagged "0.2.1".                                             *)
C5_Witness ==
    /\ InImport /\ sanitizer
    /\ SealCalls # <<>>
    /\ bundle.items # <<>>
    /\ The(SealCalls[1].draft.sanitization).status = "none"
    /\ SealCalls[1].draft.version = "0.2.1"

(* C6: every sanitizer call precedes every kernel call, and by the first   *)
(* kernel call the sanitizer has completed once for each item, in order.   *)
C6_SanitizeBeforeSeal ==
    InImport =>
        /\ \A i, j \in DOMAIN trace :
              (IsSeal(trace[i]) /\ IsSanitize(trace[j])) => j < i
        /\ (sanitizer /\ SealCalls # <<>>) =>
            /\ Len(SanitizeCalls) = Len(bundle.items)
            /\ \A k \in DOMAIN SanitizeCalls :
                  SanitizeCalls[k].index = k /\ IsSome(SanitizeCalls[k].result)

(* C6 witness: two items sanitized, then a seal attempt and its retry. *)
C6_Witness ==
    /\ InImport /\ sanitizer
    /\ Len(bundle.items) = MaxItems
    /\ Len(SanitizeCalls) = MaxItems
    /\ Len(SealCalls) = 2

(* C7: in every draft handed to the kernel, the content of each item the   *)
(* sanitizer reported as changed is the sanitizer's output and not the     *)
(* content from before sanitization, parseable or not.                     *)
C7_SealedContentIsSanitized ==
    InImport =>
        \A i \in DOMAIN SealCalls : \A k \in DOMAIN SanitizeCalls :
            ChangedCall(SanitizeCalls[k]) =>
                LET inner == SealCalls[i].draft.items[k].content.content
                IN  /\ JsonStringify(inner) = The(SanitizeCalls[k].result).sanitizedText
                    /\ inner # JStr(bundle.items[k].content)

(* C8: when sealBundle was called with a sanitizer and resolves, each item *)
(* of the resolved bundle that the sanitizer changed carries the sanitized *)
(* content and the sha256 of it.                                           *)
C8_ResolvedItemsAreSanitized ==
    (op = "sealBundleHard" /\ sanitizer /\ outcome.state = "resolved") =>
        \A k \in DOMAIN SanitizeCalls :
            ChangedCall(SanitizeCalls[k]) =>
                LET i == SanitizeCalls[k].index
                    text == The(SanitizeCalls[k].result).sanitizedText
                    item == The(outcome.value).items[i]
                IN  /\ item.content = text
                    /\ item.contentHash = sha256(text)
                    /\ item.content # bundle.items[i].content

(* What does hold there: the draft handed to the kernel carries the        *)
(* sanitized content of every changed item.                                *)
SealBundleHardDraftIsSanitized ==
    (op = "sealBundleHard" /\ sanitizer) =>
        \A j \in DOMAIN SealCalls : \A k \in DOMAIN SanitizeCalls :
            ChangedCall(SanitizeCalls[k]) =>
                SealCalls[j].draft.items[SanitizeCalls[k].index].content.content =
                    The(SanitizeCalls[k].result).sanitizedText

(* C9: after the loop, status is "sanitized" exactly when some item was    *)
(* changed and none failed to parse, "none" exactly when no item was       *)
(* changed, and "partial" or "error" when any item failed to parse.        *)
C9_FinalStatus ==
    (InImport /\ sanitizer /\ pc \in {"draft", "seal", "retry", "check"}) =>
        LET status == The(summary).status
            anyChanged == \E k \in DOMAIN SanitizeCalls : ChangedCall(SanitizeCalls[k])
            anyFailed == \E k \in DOMAIN SanitizeCalls : FailedCall(SanitizeCalls[k])
        IN  /\ status = "sanitized" <=> (anyChanged /\ ~anyFailed)
            /\ status = "none" <=> ~anyChanged
            /\ anyFailed => status \in {"partial", "error"}

(* C10: right after an item failed to parse, status is "partial" if an     *)
(* earlier item of the batch was changed and parsed, and "error" if none   *)
(* was.                                                                    *)
C10_DowngradeOnParseFailure ==
    (/\ InImport /\ pc = "sanitize"
     /\ SanitizeCalls # <<>>
     /\ FailedCall(SanitizeCalls[Len(SanitizeCalls)]))
    =>
        The(summary).status =
            IF \E k \in 1..(Len(SanitizeCalls) - 1) : ParsedCall(SanitizeCalls[k])
            THEN "partial"
            ELSE "error"

(* the sanitizer resolved on every call made so far *)
AllResolved == \A k \in DOMAIN SanitizeCalls : IsSome(SanitizeCalls[k].result)

AnyFailed == \E k \in DOMAIN SanitizeCalls : FailedCall(SanitizeCalls[k])

(* C11: a sanitized text that fails to parse does not abort the batch. The  *)
(* sanitizer is called once per item in input order; when it resolved on    *)
(* every call and one of its texts failed to parse, the loop still ends     *)
(* with one call per item and an output list that has the length, the       *)
(* item_ids and the content_types of the input in the same order, and       *)
(* buildImportBundle ends only after a sealing attempt.                     *)
C11_ParseFailureKeepsBatch ==
    (InImport /\ sanitizer) =>
        /\ \A k \in DOMAIN SanitizeCalls : SanitizeCalls[k].index = k
        /\ (AnyFailed /\ AllResolved /\ pc # "sanitize") =>
            LET input == ImportItems(bundle)
            IN  /\ Len(SanitizeCalls) = Len(input)
                /\ Len(sanitizedItems) = Len(input)
                /\ Len(items) = Len(input)
                /\ \A k \in DOMAIN input :
                      /\ sanitizedItems[k].item_id = input[k].item_id
                      /\ sanitizedItems[k].content_type = input[k].content_type
                      /\ items[k].item_id = input[k].item_id
                      /\ items[k].content_type = input[k].content_type
                /\ pc = "done" => SealCalls # <<>>

(* C11 witness: the first of two items failed to parse, the second was      *)
(* still sanitized, and the call ended after the kernel was asked to seal.  *)
C11_Witness ==
    /\ InImport /\ sanitizer /\ pc = "done"
    /\ Len(SanitizeCalls) = 2
    /\ FailedCall(SanitizeCalls[1])
    /\ IsSome(SanitizeCalls[2].result)
    /\ SealCalls # <<>>

(* the sum of redactionCount over the results in calls *)
RECURSIVE SumOfCounts(_)
SumOfCounts(calls) ==
    IF calls = <<>> THEN 0
    ELSE The(Head(calls).result).redactionCount + SumOfCounts(Tail(calls))

(* the sum of redactionsByType[k] over the results in calls, an absent key *)
(* counting as 0                                                           *)
RECURSIVE SumOfType(_, _)
SumOfType(calls, k) ==
    IF calls = <<>> THEN 0
    ELSE LET byType == The(Head(calls).result).redactionsByType
         IN  (IF k \in DOMAIN byType THEN byType[k] ELSE 0) +
             SumOfType(Tail(calls), k)

TypesOf(calls) ==
    UNION { DOMAIN The(calls[k].result).redactionsByType : k \in DOMAIN calls }

IsResolvedCall(c) == IsSanitize(c) /\ IsSome(c.result)

InFromEvent == op \in {"fromEvent", "fromEventCanonical"}

(* own keys of riskLabels *)
LabelKeys(cfg) == { cfg.riskLabels[i][1] : i \in DOMAIN cfg.riskLabels }

(* the tier that riskLabels maps label to *)
TierOfLabel(cfg, label) ==
    cfg.riskLabels[CHOOSE i \in DOMAIN cfg.riskLabels :
                        cfg.riskLabels[i][1] = label][2]

(* some prefix of the k-th entry of riskPaths is a prefix of a changed file *)
PathMatch(cfg, e, k) ==
    \E q \in DOMAIN cfg.riskPaths[k][2] :
        \E f \in DOMAIN e.changedFiles :
            StartsWith(e.changedFiles[f], cfg.riskPaths[k][2][q])

(* the tier of the first label that is a key of riskLabels, else the first *)
(* tier of riskPaths with a matching prefix, else defaultRiskTier          *)
StatedRiskTier(e, cfg) ==
    IF \E i \in DOMAIN e.labels : e.labels[i] \in LabelKeys(cfg)
    THEN LET i == CHOOSE i \in DOMAIN e.labels :
                    /\ e.labels[i] \in LabelKeys(cfg)
                    /\ \A h \in 1..(i - 1) : e.labels[h] \notin LabelKeys(cfg)
         IN  TierOfLabel(cfg, e.labels[i])
    ELSE IF \E k \in DOMAIN cfg.riskPaths : PathMatch(cfg, e, k)
    THEN LET k == CHOOSE k \in DOMAIN cfg.riskPaths :
                    PathMatch(cfg, e, k) /\ \A h \in 1..(k - 1) : ~PathMatch(cfg, e, h)
         IN  cfg.riskPaths[k][1]
    ELSE cfg.defaultRiskTier

(* C13: riskTier is the tier mapped to the first label of the event that   *)
(* is a key of riskLabels, else the first tier of riskPaths one of whose   *)
(* prefixes is a prefix of a changed file, else defaultRiskTier.           *)
C13_RiskTier ==
    InFromEvent =>
        \A i \in DOMAIN emitted :
            emitted[i].bundle.riskTier =
                JStr(StatedRiskTier(emitted[i].event, config))

(* the same, for events none of whose labels is a name inherited from     *)
(* Object.prototype or is mapped to the empty tier                        *)
InferRiskTierOnOwnTiers ==
    InFromEvent =>
        \A i \in DOMAIN emitted :
            LET e == emitted[i].event
            IN  (\A h \in DOMAIN e.labels :
                    /\ e.labels[h] \notin ObjectPrototype
                    /\ e.labels[h] \in LabelKeys(config) =>
                           TierOfLabel(config, e.labels[h]) # "")
                => emitted[i].bundle.riskTier = JStr(StatedRiskTier(e, config))

KeysOf(j) == { j.members[i][1] : i \in DOMAIN j.members }

ValueOf(j, key) == j.members[CHOOSE i \in DOMAIN j.members : j.members[i][1] = key][2]

(* x and y are structurally equal, the key order of objects ignored *)
RECURSIVE StructEq(_, _)
StructEq(x, y) ==
    IF x.t # y.t THEN FALSE
    ELSE CASE x.t = "array" ->
                /\ Len(x.elements) = Len(y.elements)
                /\ \A i \in DOMAIN x.elements : StructEq(x.elements[i], y.elements[i])
           [] x.t = "object" ->
                /\ KeysOf(x) = KeysOf(y)
                /\ \A k \in KeysOf(x) : StructEq(ValueOf(x, k), ValueOf(y, k))
           [] OTHER -> x.v = y.v

(* C14: the encodings of two JSON values are equal if and only if the      *)
(* values are structurally equal with the key order of objects ignored:    *)
(* permuting the keys of any object keeps the encoding, and arrays that    *)
(* differ in the order of their elements are encoded differently.          *)
C14_CanonicalEncoder ==
    (op = "canonicalJson" /\ IsSome(encoded)) =>
        LET x == values[1]
            y == values[2]
            ex == The(encoded)[1]
            ey == The(encoded)[2]
        IN  /\ (ex = ey) <=> StructEq(x, y)
            /\ y \in KeyOrders(x) => ex = ey
            /\ (x.t = "array" /\ y.t = "array" /\ ex = ey) =>
                   /\ Len(x.elements) = Len(y.elements)
                   /\ \A i \in DOMAIN x.elements :
                          canonicalJson(x.elements[i]) = canonicalJson(y.elements[i])

(* C14 witness: two values that differ in the key order of an inner        *)
(* object have the same encoding.                                          *)
C14_Witness ==
    /\ op = "canonicalJson" /\ IsSome(encoded)
    /\ values[1] = JObj(<< <<"a", JObj(<< <<"a", JNum("1")>>, <<"B", JStr("1")>> >>)>>,
                           <<"B", JNull>> >>)
    /\ values[2] = JObj(<< <<"B", JNull>>,
                           <<"a", JObj(<< <<"B", JStr("1")>>, <<"a", JNum("1")>> >>)>> >>)
    /\ The(encoded)[1] = The(encoded)[2]
    /\ The(encoded)[1] = "{\"B\":null,\"a\":{\"B\":\"1\",\"a\":1}}"

(* events x and y are equal except for the key order of the objects of    *)
(* rawPayload                                                             *)
SameButKeyOrder(x, y) ==
    /\ [x EXCEPT !.rawPayload = JNull] = [y EXCEPT !.rawPayload = JNull]
    /\ y.rawPayload \in KeyOrders(x.rawPayload)

Contents(b) == [i \in DOMAIN b.items |-> b.items[i].content]
ContentHashes(b) == [i \in DOMAIN b.items |-> b.items[i].contentHash]

(* C15: two events that are equal except for the key order of the objects  *)
(* of rawPayload give item lists with the same content strings and the     *)
(* same contentHash values.                                                *)
C15_HashesCanonicalContent ==
    InFromEvent =>
        \A i, h \in DOMAIN emitted :
            SameButKeyOrder(emitted[i].event, emitted[h].event) =>
                /\ Contents(emitted[i].bundle) = Contents(emitted[h].bundle)
                /\ ContentHashes(emitted[i].bundle) = ContentHashes(emitted[h].bundle)

(* the same, for fromEvent of src/unnamed/part_000 alone                   *)
FromEventCanonicalHashes ==
    op = "fromEventCanonical" =>
        \A i, h \in DOMAIN emitted :
            SameButKeyOrder(emitted[i].event, emitted[h].event) =>
                /\ Contents(emitted[i].bundle) = Contents(emitted[h].bundle)
                /\ ContentHashes(emitted[i].bundle) = ContentHashes(emitted[h].bundle)

(* two calls of fromEvent of src/unnamed/part_000 on events that differ in *)
(* the key order of rawPayload, which is written to a diff item            *)
FromEventCanonicalReordered ==
    /\ op = "fromEventCanonical" /\ Len(emitted) = 2
    /\ emitted[1].event # emitted[2].event
    /\ emitted[1].bundle.items[1].kind = "diff"
    /\ emitted[1].bundle.items[1].content = canonicalJson(NestedPayload)

(* the event has a PR number or a SHA *)
HasStableId(e) == IsSome(e.prNumber) \/ TruthyString(e.sha)

(* C16: two calls of fromEvent on the same event, whatever calls were made *)
(* before or between them, give equal item lists, equal riskTier and       *)
(* scope, and equal artifactId when the event has a PR number or a SHA;    *)
(* nothing but bundle_id, created_at and the timestamp suffix may differ.  *)
C16_Deterministic ==
    InFromEvent =>
        \A i, h \in DOMAIN emitted :
            emitted[i].event = emitted[h].event =>
                LET b1 == emitted[i].bundle
                    b2 == emitted[h].bundle
                IN  /\ b1.items = b2.items
                    /\ b1.riskTier = b2.riskTier
                    /\ b1.scope = b2.scope
                    /\ HasStableId(emitted[i].event) => b1.artifactId = b2.artifactId
                    /\ b1.version = b2.version
                    /\ b1.provider = b2.provider

(* C16 witness: two calls on the same event, which has a SHA and no PR     *)
(* number, a diff URL and a payload, with a call on another event between  *)
(* them; the bundles differ in bundle_id and created_at.                   *)
C16_Witness ==
    /\ op = "fromEvent" /\ Len(emitted) = 3
    /\ emitted[1].event = emitted[3].event
    /\ emitted[1].event # emitted[2].event
    /\ emitted[1].event.prNumber = None
    /\ TruthyString(emitted[1].event.sha)
    /\ Len(emitted[1].bundle.items) = 3
    /\ emitted[1].bundle.bundle_id # emitted[3].bundle.bundle_id
    /\ emitted[1].bundle.created_at # emitted[3].bundle.created_at
    /\ emitted[1].bundle.artifactId = emitted[3].bundle.artifactId

Kinds(b) == [i \in DOMAIN b.items |-> b.items[i].kind]

(* the serialized raw payload, as the operation writes it *)
Serialized(e) == Serialize(op = "fromEventCanonical", e.rawPayload)

IsDashed(s, text) ==
    /\ Len(text) = Len(s)
    /\ \A i \in 1..Len(s) :
          CharAt(text, i) = (IF CharAt(s, i) = "/" THEN "-" ELSE CharAt(s, i))

(* C18: artifactId is the repo with every "/" replaced by "-", followed by *)
(* "-pr-<number>" when the event has a PR number (0 included, a SHA or not),*)
(* else by "-" and the first 8 characters of the SHA when the event has a  *)
(* non-empty SHA, else by "-" and the timestamp.                           *)
C18_ArtifactId ==
    InFromEvent =>
        \A i \in DOMAIN emitted :
            LET e == emitted[i].event
                id == emitted[i].bundle.artifactId
                n == Len(e.repo)
                suffix == SubSeq(id, n + 1, Len(id))
            IN  /\ IsDashed(e.repo, SubSeq(id, 1, n))
                /\ suffix =
                     IF IsSome(e.prNumber)
                     THEN "-pr-" \o ToString(The(e.prNumber))
                     ELSE IF IsSome(e.sha) /\ The(e.sha) # ""
                     THEN "-" \o SubSeq(The(e.sha), 1,
                                         IF Len(The(e.sha)) < 8
                                         THEN Len(The(e.sha)) ELSE 8)
                     ELSE "-" \o ToString(DateNow(i))

(* C18 witness: an event with the PR number 0 and a SHA.                    *)
C18_Witness ==
    /\ InFromEvent /\ Len(emitted) = 1
    /\ emitted[1].event.prNumber = Some(0)
    /\ emitted[1].event.sha = Some("0123456789ab")
    /\ emitted[1].bundle.artifactId = "org-sub-repo-pr-0"

InHandleRequest == op = "handleRequest"

(* the request carries a header whose lowercased key is name *)
HasHeader(name) ==
    \E i \in DOMAIN request.headers : ToLowerCase(request.headers[i][1]) = name

(* provider p recognizes the request *)
Accepts(p) ==
    CASE p.name = "github" -> HasHeader("x-github-event")
      [] p.name = "gitlab" -> HasHeader("x-gitlab-event")
      [] OTHER -> TRUE

(* the first provider, in registration order, that recognizes the request; *)
(* 0 if there is none                                                      *)
FirstAccepting ==
    IF \E i \in DOMAIN providers : Accepts(providers[i])
    THEN CHOOSE i \in DOMAIN providers :
            Accepts(providers[i]) /\ \A h \in 1..(i - 1) : ~Accepts(providers[h])
    ELSE 0

IsValidate(c) == c.ev = "validate"
IsParse(c) == c.ev = "parse"

(* the promise was rejected with an error of the class name *)
RejectedWith(name) ==
    /\ outcome.state = "rejected"
    /\ "name" \in DOMAIN The(outcome.error)
    /\ The(outcome.error).name = name

(* C19: matches() is called on the providers in registration order, with   *)
(* the lowercased headers, up to the first that recognizes the request and *)
(* no further; validate and parse are called on that provider alone, at    *)
(* most once each; when its validation fails the call is rejected with a   *)
(* SignatureValidationError and nothing else is called.                    *)
C19_FirstMatchDispatch ==
    InHandleRequest =>
        LET validates == SelectSeq(trace, IsValidate)
            parses == SelectSeq(trace, IsParse)
        IN  /\ \A k \in DOMAIN trace :
                  /\ \A key \in DOMAIN trace[k].headers : ToLowerCase(key) = key
                  /\ trace[k].ev = "matches" =>
                         /\ trace[k].index = k
                         /\ FirstAccepting # 0 => k <= FirstAccepting
                         /\ trace[k].result = (k = FirstAccepting)
                  /\ trace[k].ev \in {"validate", "parse"} =>
                         trace[k].index = FirstAccepting
            /\ Len(validates) <= 1 /\ Len(parses) <= 1
            /\ parses # <<>> => (validates # <<>> /\ validates[1].error = None)
            /\ (pc = "done" /\ FirstAccepting # 0) =>
                  /\ Consulted = FirstAccepting
                  /\ Len(validates) = 1
                  /\ IF IsSome(validates[1].error)
                     THEN /\ parses = <<>>
                          /\ RejectedWith("SignatureValidationError")
                          /\ Len(trace) = FirstAccepting + 1
                     ELSE Len(parses) = 1

(* C19 witness: a GitHub request with a bad signature, sent with mixed-case *)
(* header keys to a handler of GitHubProvider followed by GenericProvider, *)
(* is rejected after one matches() and one validate().                     *)
C19_Witness ==
    /\ InHandleRequest /\ pc = "done"
    /\ providers = << [name |-> "github", secret |-> Some("s3cret")],
                      [name |-> "generic", secret |-> None] >>
    /\ request.headers = << <<"X-GitHub-Event", "push">>,
                            <<"X-Hub-Signature-256", "sha256=bad">> >>
    /\ Len(trace) = 2
    /\ trace[2].ev = "validate" /\ trace[2].index = 1
    /\ RejectedWith("SignatureValidationError")

(* C20: the call is rejected with NoMatchingProviderError if and only if   *)
(* it has ended and no provider recognizes the request; then neither       *)
(* validate nor parse was called; a handler with a GenericProvider never   *)
(* rejects with NoMatchingProviderError.                                   *)
C20_NoMatchingProvider ==
    InHandleRequest =>
        /\ RejectedWith("NoMatchingProviderError") <=>
               (pc = "done" /\ FirstAccepting = 0)
        /\ RejectedWith("NoMatchingProviderError") =>
               /\ outcome = Rejected(NoMatchingProviderError)
               /\ \A k \in DOMAIN trace : trace[k].ev = "matches" /\ ~trace[k].result
               /\ Len(trace) = Len(providers)
        /\ (\E i \in DOMAIN providers : providers[i].name = "generic") =>
               ~RejectedWith("NoMatchingProviderError")

(* C20 witness: a request without the header of either provider, sent to a *)
(* handler of GitHubProvider and GitLabProvider.                           *)
C20_Witness ==
    /\ InHandleRequest /\ pc = "done"
    /\ providers = << [name |-> "github", secret |-> None],
                      [name |-> "gitlab", secret |-> Some("t0ken")] >>
    /\ request.headers = <<>>
    /\ RejectedWith("NoMatchingProviderError")
    /\ Len(trace) = 2

(* the value the request carries under the header name: the last one sent *)
(* under a key that lowercases to name                                     *)
Credential(name) ==
    LET at == { i \in DOMAIN request.headers :
                    ToLowerCase(request.headers[i][1]) = name }
    IN  IF at = {} THEN None
        ELSE Some(request.headers[CHOOSE i \in at : \A h \in at : h <= i][2])

(* the request proves knowledge of the secret of provider p, or p has none *)
Authenticated(p) ==
    CASE p.name = "github" /\ p.secret # None /\ The(p.secret) # "" ->
            Credential("x-hub-signature-256") =
                Some("sha256=" \o Hmac(The(p.secret), request.body))
      [] p.name = "gitlab" /\ p.secret # None /\ The(p.secret) # "" ->
            Credential("x-gitlab-token") = p.secret
      [] OTHER -> TRUE

(* C21: parse is called only after validate of the same provider has       *)
(* returned without an error; when validate throws, the call is rejected   *)
(* with a SignatureValidationError and parse is not called; a call that    *)
(* resolves with an event was made with a request that carries the         *)
(* credential of the selected provider.                                    *)
C21_ValidateBeforeParse ==
    InHandleRequest =>
        /\ \A k \in DOMAIN trace :
              /\ trace[k].ev = "parse" =>
                     \E h \in 1..(k - 1) :
                         /\ trace[h].ev = "validate"
                         /\ trace[h].index = trace[k].index
                         /\ trace[h].error = None
              /\ (trace[k].ev = "validate" /\ trace[k].error # None) =>
                     /\ RejectedWith("SignatureValidationError")
                     /\ \A h \in DOMAIN trace : trace[h].ev # "parse"
        /\ outcome.state = "resolved" =>
              /\ FirstAccepting # 0
              /\ Authenticated(providers[FirstAccepting])
              /\ \E k \in DOMAIN trace : trace[k].ev = "validate"

(* C21 witness: a GitLab request with a wrong token is rejected after      *)
(* validate, without a call of parse.                                      *)
C21_Witness ==
    /\ InHandleRequest /\ pc = "done"
    /\ providers[1] = [name |-> "gitlab", secret |-> Some("t0ken")]
    /\ request.headers = << <<"X-Gitlab-Event", "Push Hook">>,
                            <<"X-Gitlab-Token", "guess">> >>
    /\ trace[Len(trace)].ev = "validate"
    /\ trace[Len(trace)].error = Some(Error("Token mismatch"))
    /\ RejectedWith("SignatureValidationError")

InPostImportBundle == op = "postImportBundle"

IsFetch(c) == c.ev = "fetch"

(* C22: when the response head has arrived and the body was read, the call *)
(* resolves with the status of the response and with ok exactly for a      *)
(* status of 200 to 299; error is the body text when ok is false and       *)
(* undefined when ok is true; the call resolves in no other case.          *)
C22_NonOkIsData ==
    (InPostImportBundle /\ pc = "done") =>
        /\ (The(post).status # None /\ The(post).text # None) =>
              /\ outcome.state = "resolved"
              /\ LET answer == The(outcome.value)
                     status == The(The(post).status)
                 IN  /\ answer.status = status
                     /\ answer.ok = (status \in 200..299)
                     /\ answer.error = IF answer.ok THEN None ELSE The(post).text
        /\ outcome.state = "resolved" =>
              (The(post).status # None /\ The(post).text # None)

(* C22 witness: a 404 response with the body "oops" *)
C22_Witness ==
    /\ InPostImportBundle /\ pc = "done"
    /\ The(post).status = Some(404)
    /\ outcome = Resolved([ok |-> FALSE, status |-> 404, data |-> JStr("oops"),
                           error |-> Some("oops")])

(* C23: a call that met a network failure or a timeout has issued exactly  *)
(* one request and resolves with ok = false.                               *)
C23_FailureIsData ==
    (InPostImportBundle /\ pc = "done" /\ The(post).failure # None) =>
        /\ Len(SelectSeq(trace, IsFetch)) = 1
        /\ outcome.state = "resolved"
        /\ ~The(outcome.value).ok

(* the part of C23 the code keeps: no call issues more than one request,   *)
(* and a call that got past the construction of the URL issued one         *)
PostIssuesOneRequest ==
    InPostImportBundle =>
        /\ Len(trace) <= 1
        /\ \A k \in DOMAIN trace : IsFetch(trace[k])
        /\ (pc # "start" /\ outcome # Rejected(InvalidUrl)) => Len(trace) = 1

(* after the call has ended its timer cannot fire *)
PostTimerReleased ==
    (InPostImportBundle /\ pc = "done") => The(post).timer # "armed"

IsDraft(b) ==
    /\ b.bundle_id # "" /\ b.created_at # ""
    /\ ("immutability_proof" \in DOMAIN b => b.immutability_proof = None)

(* the call has ended with a sealed bundle / with a failure *)
Sealed ==
    /\ outcome.state = "resolved"
    /\ The(outcome.value).immutability_proof # None
Failed == outcome.state = "rejected"

(* C25: fromEvent returns a Draft: a bundle with an identifier, a creation *)
(* time and no immutability_proof. A call of buildImportBundle that has    *)
(* ended is Sealed or Failed and not both, and one that has not ended is   *)
(* neither. No step of buildImportBundle changes the bundle it was given.  *)
(* A call made with the Draft of calls that Failed, when it is Sealed,     *)
(* returns the bundle_id and the created_at of the Draft and one item per  *)
(* item of the Draft with its kind, summary and url, and with its content  *)
(* when no sanitizer was given.                                            *)
C25_DraftSealedFailed ==
    /\ [](InFromEvent => \A k \in DOMAIN emitted : IsDraft(emitted[k].bundle))
    /\ [](InImport => /\ pc = "done" => (Sealed \/ Failed)
                      /\ ~(Sealed /\ Failed)
                      /\ pc # "done" => outcome = Pending)
    /\ [][InImport => bundle' = bundle]_vars
    /\ []((InImport /\ IsDraft(bundle) /\ Sealed) =>
            LET returned == The(outcome.value)
            IN  /\ \A k \in DOMAIN attempts : attempts[k] = "rejected"
                /\ returned.bundle_id = bundle.bundle_id
                /\ returned.created_at = bundle.created_at
                /\ Len(returned.items) = Len(bundle.items)
                /\ \A i \in DOMAIN bundle.items :
                      /\ returned.items[i].content.kind = bundle.items[i].kind
                      /\ returned.items[i].content.summary = bundle.items[i].summary
                      /\ returned.items[i].content.url = bundle.items[i].url
                      /\ ~sanitizer => returned.items[i].content.content =
                                           JStr(bundle.items[i].content))

(* C25 witness: the first call with a Draft Failed and the second call     *)
(* with the same Draft is Sealed.                                          *)
C25_Witness ==
    /\ InImport /\ pc = "done"
    /\ IsDraft(bundle) /\ Len(bundle.items) = 2
    /\ attempts = <<"rejected">>
    /\ Sealed
    /\ The(outcome.value).bundle_id = "b-1"

(* the texts of the sanitizer calls made for the items 1..n, one after the *)
(* other in the order of the items; which(c) is the text taken of call c   *)
RECURSIVE InItemOrder(_, _)
InItemOrder(n, output) ==
    IF n = 0 THEN ""
    ELSE LET c == CHOOSE c \in { trace[k] : k \in DOMAIN trace } :
                      IsSanitize(c) /\ c.index = n
         IN  InItemOrder(n - 1, output) \o
                 (IF output THEN The(c.result).sanitizedText ELSE c.text)

(* C26: whatever the order in which the sanitizer calls of sealBundle      *)
(* complete, item i of every draft handed to the kernel has the kind, the  *)
(* summary and the item_id "item-<i>-<kind>" of item i of the bundle, and  *)
(* as content the text the sanitizer returned for item i if it reported a  *)
(* change and the content of item i otherwise. In buildImportBundle the    *)
(* input_hash is the hash of the texts given to the sanitizer and the      *)
(* output_hash the hash of the texts it returned, each concatenated in the *)
(* order of the items.                                                     *)
C26_OrderPreserved ==
    /\ op = "sealBundleHard" =>
          \A k \in DOMAIN trace : IsSeal(trace[k]) =>
              LET its == trace[k].draft.items
              IN  /\ Len(its) = Len(bundle.items)
                  /\ \A i \in DOMAIN its :
                        /\ its[i].item_id = "item-" \o ToString(i - 1) \o "-"
                                                \o bundle.items[i].kind
                        /\ its[i].content.kind = bundle.items[i].kind
                        /\ its[i].content.summary = bundle.items[i].summary
                        /\ IF sanitizer
                           THEN \E h \in 1..(k - 1) :
                                   /\ IsSanitize(trace[h]) /\ trace[h].index = i
                                   /\ trace[h].text = bundle.items[i].content
                                   /\ its[i].content.content =
                                          IF The(trace[h].result).changed
                                          THEN The(trace[h].result).sanitizedText
                                          ELSE bundle.items[i].content
                           ELSE its[i].content.content = bundle.items[i].content
    /\ (InImport /\ sanitizer /\ pc \in {"draft", "seal", "retry", "check"}) =>
          /\ Len(SanitizeCalls) = Len(bundle.items)
          /\ The(summary).input_hash =
                 Some(sha256(InItemOrder(Len(bundle.items), FALSE)))
          /\ The(summary).output_hash =
                 Some(sha256(InItemOrder(Len(bundle.items), TRUE)))

(* C26 witness: the sanitizer call for the second item completed before    *)
(* the call for the first, both reported a change, and the draft was       *)
(* handed to the kernel.                                                   *)
C26_Witness ==
    /\ op = "sealBundleHard" /\ sanitizer
    /\ Len(bundle.items) = 2
    /\ bundle.items[1].kind = "diff" /\ bundle.items[2].kind = "metadata"
    /\ Len(trace) = 3
    /\ IsSanitize(trace[1]) /\ trace[1].index = 2 /\ The(trace[1].result).changed
    /\ IsSanitize(trace[2]) /\ trace[2].index = 1 /\ The(trace[2].result).changed
    /\ IsSeal(trace[3])

InWasmSanitize == op = "wasmSanitizeText"

(* C27: when a call of the WASM sanitizeText has returned or thrown, every *)
(* descriptor it opened is closed and every temporary file it created is   *)
(* removed.                                                                *)
C27_WasmReleasesResources ==
    (InWasmSanitize /\ pc = "done") =>
        /\ The(wasm).fds = {}
        /\ The(wasm).files = {}

(* the part of C27 the code keeps: the temporary files are removed on      *)
(* every exit, and the descriptors are closed when the call returns        *)
WasmTempFilesRemoved ==
    (InWasmSanitize /\ pc = "done") =>
        /\ The(wasm).files = {}
        /\ outcome.state = "resolved" => The(wasm).fds = {}

InHttpSanitize == op = "httpSanitizeText"

(* the names under which a response may carry the sanitized text *)
SanitizedTextFields == {"sanitized_text", "redacted_text", "text", "output"}

(* the response body carries a string under one of these names *)
HasSanitizedText(body) ==
    /\ body.t = "object"
    /\ \E i \in DOMAIN body.members :
          /\ body.members[i][1] \in SanitizedTextFields
          /\ body.members[i][2].t = "string"

(* C28: a call of the HTTP sanitizeText that has ended after a transport   *)
(* error, after the timer fired, after a status outside 200 to 299 or      *)
(* after a response body without a sanitized text was rejected; a call     *)
(* resolves only with a text the response carried under one of the four    *)
(* names; once the call has ended its timer is not armed.                  *)
C28_HttpFailClosed ==
    (InHttpSanitize /\ pc = "done") =>
        /\ The(http).timer # "armed"
        /\ ( \/ The(http).failure # None
             \/ The(http).aborted
             \/ The(http).status = None
             \/ The(The(http).status) \notin 200..299
             \/ The(http).body = None
             \/ ~HasSanitizedText(The(The(http).body)) )
                => outcome.state = "rejected"
        /\ outcome.state = "resolved" =>
              \E i \in DOMAIN The(The(http).body).members :
                  /\ The(The(http).body).members[i][1] \in SanitizedTextFields
                  /\ The(The(http).body).members[i][2] =
                         JStr(The(outcome.value).sanitizedText)

(* C28 witness: a 200 response whose body has none of the four fields *)
C28_Witness ==
    /\ InHttpSanitize /\ pc = "done"
    /\ The(http).status = Some(200)
    /\ The(http).body = Some(JObj(<< <<"status", JStr("ok")>> >>))
    /\ outcome = Rejected(NoSanitizedText)
    /\ The(http).timer = "cleared"

(* C29: when a sanitizer call of buildImportBundle rejects, the call of    *)
(* buildImportBundle is rejected with the error of the sanitizer, no       *)
(* further sanitizer call is made and the kernel is not called; the kernel *)
(* is called, and a bundle returned, only after the sanitizer has resolved *)
(* for every item.                                                         *)
C29_SanitizerFailureRejects ==
    (InImport /\ sanitizer) =>
        /\ \A k \in DOMAIN trace :
              (IsSanitize(trace[k]) /\ trace[k].result = None) =>
                  /\ k = Len(trace)
                  /\ pc = "done"
                  /\ outcome.state = "rejected"
                  /\ The(outcome.error) \in SanitizerErrors
                  /\ SealCalls = <<>>
        /\ (SealCalls # <<>> \/ outcome.state = "resolved") =>
              /\ Len(SanitizeCalls) = Len(bundle.items)
              /\ \A i \in DOMAIN bundle.items :
                    /\ SanitizeCalls[i].index = i
                    /\ SanitizeCalls[i].result # None

(* C29 witness: the sanitizer resolved for the first of two items and      *)
(* rejected for the second                                                 *)
C29_Witness ==
    /\ InImport /\ sanitizer /\ pc = "done"
    /\ Len(bundle.items) = 2
    /\ Len(trace) = 2
    /\ IsSanitize(trace[1]) /\ trace[1].result # None
    /\ IsSanitize(trace[2]) /\ trace[2].result = None
    /\ outcome = Rejected(Error("sanitizer unavailable"))

(* the draft of the last call of the kernel *)
AcceptedDraft == SealCalls[Len(SealCalls)].draft

(* C30: the bundle that buildImportBundle returns has the version, the     *)
(* sanitization summary, the bundle_id, the created_at and the metadata of *)
(* the draft that the kernel was given when it returned the proof; that    *)
(* version is "0.2.0" after a downgrade retry and the version of the first *)
(* draft otherwise, and the metadata are the artifact_id, risk_tier, scope *)
(* and provider of the input bundle.                                       *)
C30_ReturnedIsAcceptedDraft ==
    (InImport /\ outcome.state = "resolved") =>
        LET returned == The(outcome.value)
        IN  /\ SealCalls # <<>>
            /\ HasProof(SealCalls[Len(SealCalls)].answer)
            /\ returned.version = AcceptedDraft.version
            /\ returned.version = IF Len(SealCalls) = 2 THEN "0.2.0"
                                  ELSE SealCalls[1].draft.version
            /\ returned.sanitization = AcceptedDraft.sanitization
            /\ returned.bundle_id = AcceptedDraft.bundle_id
            /\ returned.created_at = AcceptedDraft.created_at
            /\ returned.metadata = AcceptedDraft.metadata
            /\ returned.metadata =
                   [artifact_id |-> bundle.artifactId, risk_tier |-> bundle.riskTier,
                    scope |-> bundle.scope, provider |-> bundle.provider]

(* C30 witness: the kernel rejected the "0.2.1" draft of a bundle without  *)
(* an identifier, accepted the "0.2.0" draft, and the returned bundle has  *)
(* the version "0.2.0" and the sanitization summary.                       *)
C30_Witness ==
    /\ InImport /\ outcome.state = "resolved"
    /\ bundle.bundle_id = ""
    /\ Len(SealCalls) = 2
    /\ SealCalls[1].draft.version = "0.2.1"
    /\ AcceptedDraft.version = "0.2.0"
    /\ The(outcome.value).version = "0.2.0"
    /\ The(outcome.value).sanitization # None
    /\ The(outcome.value).bundle_id = FreshUuid

====
